---------------------------- MODULE Spec2Model ----------------------------
(***************************************************************************)
(* The Story Bible store of storylens-extension/src/background.ts          *)
(* (lines 197-622): one storage bucket holding every project's aggregate,  *)
(* read and written whole by asynchronous operations; and the message      *)
(* router of the service worker (lines 112-195).                           *)
(*                                                                         *)
(* Strings are sequences of one-character strings, so that trim, prefix    *)
(* tests, slices and concatenations are computed as the code computes      *)
(* them.  Project ids are opaque and stay TLA+ strings.                    *)
(***************************************************************************)
EXTENDS Integers, Sequences, FiniteSets, TLC

(***************************************************************************)
(* Bounds of the model.  The four quotas and the two slice lengths are the *)
(* code's constants scaled down (background.ts:239-242, 310, 324) so that  *)
(* the caps are crossed within a few operations.                           *)
(***************************************************************************)
\* MAX_ENTITIES = 2000 in the source
MAX_ENTITIES == 2
\* MAX_EVIDENCE_PER_ENTITY = 20 in the source
MAX_EVIDENCE_PER_ENTITY == 2
\* MAX_THREADS = 500 in the source
MAX_THREADS == 2
\* MAX_TODOS_PER_THREAD = 40 in the source
MAX_TODOS_PER_THREAD == 2
\* the slice(0, 50) of mergeAttrs
MaxAttrValues == 3
\* the slice(0, 80) of the evidence key
QuoteKeyLen == 2
\* Date.now() advances at most this far
MaxClock == 1

SCHEMA_VERSION == 1

(***************************************************************************)
(* JavaScript values                                                       *)
(***************************************************************************)
\* a property whose value is undefined, and a property that is not there
Undef == <<"#undefined">>
Missing == <<"#missing">>
Absent(v) == v = Undef \/ v = Missing
\* x || "" for a string-or-undefined x
OrEmpty(v) == IF Absent(v) THEN <<>> ELSE v

Min(a, b) == IF a <= b THEN a ELSE b
Take(s, n) == SubSeq(s, 1, Min(n, Len(s)))
\* Array.prototype.slice(-n)
TakeLast(s, n) == SubSeq(s, Len(s) - Min(n, Len(s)) + 1, Len(s))
Range(s) == {s[i] : i \in 1..Len(s)}
SelectIdx(s, P(_)) == IF \E i \in 1..Len(s) : P(s[i])
                      THEN CHOOSE i \in 1..Len(s) : P(s[i]) /\ \A j \in 1..(i-1) : ~P(s[j])
                      ELSE 0

RECURSIVE Uniq(_)
\* Array.from(new Set(arr)): first occurrences, in order
Uniq(s) ==
    IF s = <<>> THEN <<>>
    ELSE LET r == Uniq(SubSeq(s, 1, Len(s) - 1))
             x == s[Len(s)]
         IN IF x \in Range(r) THEN r ELSE Append(r, x)

UpperChars == <<"A","B","C","D","E","F","G","H","I","J","K","L","M",
                "N","O","P","Q","R","S","T","U","V","W","X","Y","Z">>
LowerChars == <<"a","b","c","d","e","f","g","h","i","j","k","l","m",
                "n","o","p","q","r","s","t","u","v","w","x","y","z">>
IsLetter(c) == c \in Range(UpperChars) \/ c \in Range(LowerChars)
LowerChar(c) == IF c \in Range(UpperChars)
                THEN LowerChars[CHOOSE i \in 1..26 : UpperChars[i] = c]
                ELSE c
\* String.prototype.toLowerCase
ToLower(s) == [i \in 1..Len(s) |-> LowerChar(s[i])]

IsSpace(c) == c = " "
RECURSIVE TrimLeft(_)
TrimLeft(s) == IF s # <<>> /\ IsSpace(Head(s)) THEN TrimLeft(Tail(s)) ELSE s
RECURSIVE TrimRight(_)
TrimRight(s) == IF s # <<>> /\ IsSpace(s[Len(s)])
                THEN TrimRight(SubSeq(s, 1, Len(s) - 1)) ELSE s
\* String.prototype.trim
Trim(s) == TrimRight(TrimLeft(s))

StartsWith(s, p) == Len(s) >= Len(p) /\ SubSeq(s, 1, Len(p)) = p
\* s.split(":")[0]
SplitFirst(s) == LET i == SelectIdx(s, LAMBDA c : c = ":")
                 IN IF i = 0 THEN s ELSE SubSeq(s, 1, i - 1)

tCharacter == <<"C","h","a","r","a","c","t","e","r">>
tLocation == <<"L","o","c","a","t","i","o","n">>
tRule == <<"R","u","l","e">>
tObject == <<"O","b","j","e","c","t">>
tConcept == <<"C","o","n","c","e","p","t">>
BibleEntityType == {tCharacter, tLocation, tRule, tObject, tConcept}

(***************************************************************************)
(* Internal helpers                                                        *)
(***************************************************************************)
normalizeType(t) ==
    LET T == Trim(OrEmpty(t))
        re(w) == StartsWith(ToLower(T), ToLower(w) \o <<":">>)
    IN IF T \in BibleEntityType THEN T
       ELSE IF re(tCharacter) THEN tCharacter
       ELSE IF re(tLocation) THEN tLocation
       ELSE IF re(tRule) THEN tRule
       ELSE IF re(tObject) THEN tObject
       ELSE tConcept

\* /^[A-Za-z]+:/.test(id)
HasPrefix(id) == \E i \in 2..Len(id) :
                    id[i] = ":" /\ \A j \in 1..(i-1) : IsLetter(id[j])

\* the prefixing left out: the id is kept as given
ensureIdPrefixKept(id, type) == id

ensureIdPrefix(id, type) == IF HasPrefix(id) THEN id ELSE type \o <<":">> \o id


(***************************************************************************)
(* Attribute values.  An attrs object is the sequence of its [k, v]        *)
(* entries in key order; a value is tagged with its JavaScript type and    *)
(* carries its strings in a sequence: "str" one string, "arr" the array's  *)
(* elements, "num" the number's decimal text, "null" nothing.              *)
(***************************************************************************)
AStr(s) == [t |-> "str", v |-> <<s>>]
AArr(ss) == [t |-> "arr", v |-> ss]
ANum(s) == [t |-> "num", v |-> <<s>>]
ANull == [t |-> "null", v |-> <<>>]
AttrIdx(attrs, k) == SelectIdx(attrs, LAMBDA e : e.k = k)
\* out[k], null standing for undefined too (the code tests != null)
AttrGet(attrs, k) == IF AttrIdx(attrs, k) = 0 THEN ANull ELSE attrs[AttrIdx(attrs, k)].v
\* out[k] = v: an existing key keeps its place, a new key goes last
AttrSet(attrs, k, v) ==
    IF AttrIdx(attrs, k) = 0 THEN Append(attrs, [k |-> k, v |-> v])
    ELSE [attrs EXCEPT ![AttrIdx(attrs, k)].v = v]
\* Array.isArray(x) ? x : (x != null ? [String(x)] : [])
AsArray(x) == IF x.t = "arr" THEN x.v ELSE IF x.t = "null" THEN <<>> ELSE x.v

\* uniq and the cap left out: the values are only concatenated
mergeAttrConcat(out, k, v) ==
    AttrSet(out, k, AArr(AsArray(AttrGet(out, k)) \o AsArray(v)))

\* the conflict set left out: a new value replaces the old one
mergeAttrOverwrite(out, k, v) == IF v.t = "null" THEN out ELSE AttrSet(out, k, v)

\* the slice left out: the union is deduplicated and never cut
mergeAttrUncapped(out, k, v) ==
    LET av == AttrGet(out, k)
    IN IF av.t = "arr" \/ v.t = "arr"
       THEN AttrSet(out, k, AArr(Uniq(AsArray(av) \o AsArray(v))))
       ELSE IF v.t = "str"
       THEN IF av.t = "str" /\ av.v[1] # <<>> /\ av.v[1] # v.v[1]
            THEN AttrSet(out, k, AArr(Uniq(<<av.v[1], v.v[1]>>)))
            ELSE AttrSet(out, k, v)
       ELSE IF v.t # "null"
       THEN AttrSet(out, k, AStr(v.v[1]))
       ELSE out

\* one iteration of the loop of mergeAttrs
mergeAttr(out, k, v) ==
    LET av == AttrGet(out, k)
    IN IF av.t = "arr" \/ v.t = "arr"
       THEN AttrSet(out, k, AArr(Take(Uniq(AsArray(av) \o AsArray(v)), MaxAttrValues)))
       ELSE IF v.t = "str"
       THEN IF av.t = "str" /\ av.v[1] # <<>> /\ av.v[1] # v.v[1]
            THEN AttrSet(out, k, AArr(Uniq(<<av.v[1], v.v[1]>>)))
            ELSE AttrSet(out, k, v)
       ELSE IF v.t # "null"
       THEN AttrSet(out, k, AStr(v.v[1]))
       ELSE out

RECURSIVE mergeAttrs(_, _)
mergeAttrs(a, b) ==
    IF b = <<>> THEN a
    ELSE LET n == Len(b)
         IN mergeAttr(mergeAttrs(a, SubSeq(b, 1, n - 1)), b[n].k, b[n].v)

(***************************************************************************)
(* Evidence: [chapterId, span, quote].  chapterId and quote are strings or *)
(* Undef; span is a sequence of digits, empty when the field is missing    *)
(* (the code reads it as e.span || []).                                    *)
(***************************************************************************)
Digits == <<"0","1","2","3","4","5","6","7","8","9">>
\* a member of span is a digit, NaN or (once NaN has been through JSON) null
spanNaN == -1
spanNull == -2
\* the text join gives a member: String(n), and nothing for null
SpanText(n) == IF n = spanNaN THEN <<"N","a","N">>
               ELSE IF n = spanNull THEN <<>> ELSE <<Digits[n + 1]>>
RECURSIVE JoinSpan(_)
\* (e.span || []).join(",")
JoinSpan(sp) == IF sp = <<>> THEN <<>>
                ELSE IF Len(sp) = 1 THEN SpanText(sp[1])
                ELSE SpanText(sp[1]) \o <<",">> \o JoinSpan(Tail(sp))

evidenceKey(e) ==
    OrEmpty(e.chapterId) \o <<"|">> \o JoinSpan(e.span) \o <<"|">>
        \o Take(OrEmpty(e.quote), QuoteKeyLen)

RECURSIVE dedupeLoop(_, _, _)
dedupeLoop(list, seen, out) ==
    IF list = <<>> THEN out
    ELSE LET e == Head(list)
             k == evidenceKey(e)
         IN IF k \notin seen
            THEN IF Len(out) + 1 >= MAX_EVIDENCE_PER_ENTITY
                 THEN Append(out, e)
                 ELSE dedupeLoop(Tail(list), seen \cup {k}, Append(out, e))
            ELSE dedupeLoop(Tail(list), seen, out)

\* the seen-key test left out: the list is only cut at the cap
dedupeEvidenceCutOnly(list) == Take(list, MAX_EVIDENCE_PER_ENTITY)

\* the loop run from the end: the latest entries are the ones kept
dedupeEvidenceLatest(list) ==
    LET rev(l) == [i \in 1..Len(l) |-> l[Len(l) + 1 - i]]
    IN rev(dedupeLoop(rev(list), {}, <<>>))

dedupeEvidence(list) == dedupeLoop(list, {}, <<>>)

(***************************************************************************)
(* Hooks.  A hook value is <<kind, n>>: a number ("num", n in tenths), a   *)
(* numeric string ("str", the same), NaN ("nan", 0) or an infinity         *)
(* ("inf", 1 or -1).                                                       *)
(***************************************************************************)
\* Number(n)
ToNumber(h) == IF h[1] = "str" THEN <<"num", h[2]>> ELSE h
\* isFinite(n) for a number n
IsFiniteNum(h) == h[1] = "num"
InUnit(h) == h[2] >= 0 /\ h[2] <= 10
MapSeq(s, F(_)) == [i \in 1..Len(s) |-> F(s[i])]
(***************************************************************************)
(* The aggregate.  entities is the object's entries [k, v] in enumeration  *)
(* order (every key holds a ":" or a letter, so the order is insertion     *)
(* order); schemaVersion is <<>> when the record has no such field, and a  *)
(* thread's createdAt and updatedAt likewise.  hooks and todos are         *)
(* sequences, empty when missing (the code reads them as x || []).         *)
(***************************************************************************)
EntIdx(b, id) == SelectIdx(b.entities, LAMBDA e : e.k = id)
EntKeys(b) == {b.entities[i].k : i \in 1..Len(b.entities)}
\* b.entities[id] = v
EntSet(b, id, v) ==
    IF EntIdx(b, id) = 0
    THEN [b EXCEPT !.entities = Append(@, [k |-> id, v |-> v])]
    ELSE [b EXCEPT !.entities[EntIdx(b, id)].v = v]

\* the hook filter left out: hooks are only converted
pruneThreadUnfiltered(t) ==
    [t EXCEPT !.todos = Take(t.todos, MAX_TODOS_PER_THREAD),
              !.hooks = MapSeq(t.hooks, ToNumber)]

pruneThread(t) ==
    [t EXCEPT !.todos = Take(t.todos, MAX_TODOS_PER_THREAD),
              !.hooks = SelectSeq(MapSeq(t.hooks, ToNumber),
                                  LAMBDA n : IsFiniteNum(n) /\ InUnit(n))]

\* the entity clamp left out
pruneEntitiesUnclamped(entries) == entries

\* the clamp turned round: the last MAX_ENTITIES entries are kept
pruneEntitiesLastN(entries) == TakeLast(entries, MAX_ENTITIES)

pruneEntities(entries) ==
    IF Len(entries) > MAX_ENTITIES THEN Take(entries, MAX_ENTITIES) ELSE entries

\* the clamp turned round: the first MAX_THREADS threads are kept
pruneThreadsFirstN(threads) == Take(threads, MAX_THREADS)

pruneThreads(threads) ==
    IF Len(threads) > MAX_THREADS THEN TakeLast(threads, MAX_THREADS) ELSE threads

pruneBible(b) ==
    [b EXCEPT !.entities = MapSeq(pruneEntities(b.entities),
                  LAMBDA e : [e EXCEPT !.v.evidence = dedupeEvidence(e.v.evidence)]),
              !.threads = MapSeq(pruneThreads(b.threads), pruneThread)]

NewBible(projectId, now) ==
    [projectId |-> projectId, updatedAt |-> now, schemaVersion |-> <<SCHEMA_VERSION>>,
     entities |-> <<>>, threads |-> <<>>, style |-> <<>>]

\* every record stamped with the current version
migrateToCurrent(b, projectId) ==
    pruneBible([b EXCEPT !.schemaVersion = <<SCHEMA_VERSION>>, !.projectId = projectId])

\* migrate(b, projectId) for a record b that is there
migrate(b, projectId) ==
    pruneBible([b EXCEPT !.schemaVersion = IF @ = <<>> THEN <<1>> ELSE @,
                         !.projectId = projectId])

(***************************************************************************)
(* The operations' bodies between their getBible and their putBible, as    *)
(* functions of the aggregate b that getBible returned.                    *)
(***************************************************************************)
\* the write-back b.entities[id] = merged left out
upsertIntoNotWritten(b, e) == b

\* the per-item algorithm of upsertEntity and upsertEntities; e = [id, type, attrs, evidence]
upsertInto(b, e) ==
    LET type == normalizeType(IF OrEmpty(e.type) = <<>> THEN SplitFirst(e.id) ELSE e.type)
        id == ensureIdPrefix(e.id, type)
        i == EntIdx(b, id)
        prevAttrs == IF i = 0 THEN <<>> ELSE b.entities[i].v.attrs
        prevEvidence == IF i = 0 THEN <<>> ELSE b.entities[i].v.evidence
        merged == [id |-> id, type |-> type,
                   attrs |-> mergeAttrs(prevAttrs, e.attrs),
                   evidence |-> dedupeEvidence(prevEvidence \o e.evidence)]
    IN EntSet(b, id, merged)

\* the canonical id upsertInto stores e under
canonicalId(e) ==
    ensureIdPrefix(e.id, normalizeType(IF OrEmpty(e.type) = <<>> THEN SplitFirst(e.id) ELSE e.type))

\* the loop left out: only the last item of the batch is applied
upsertAllLastOnly(b, es) == upsertInto(b, es[Len(es)])

RECURSIVE upsertAll(_, _)
upsertAll(b, es) ==
    IF es = <<>> THEN b ELSE upsertAll(upsertInto(b, Head(es)), Tail(es))

ThreadIdx(b, name) == SelectIdx(b.threads, LAMBDA x : x.name = name)

\* base.status left out of the status rule: a delta without status gives open
mergeThreadStatusReset(base, t, now) ==
    [name |-> IF t.name # Missing THEN t.name ELSE base.name,
     status |-> IF t.status # "" THEN t.status ELSE "open",
     notes |-> IF t.notes # Missing THEN t.notes ELSE base.notes,
     hooks |-> SelectSeq(MapSeq(SelectSeq(Uniq(base.hooks \o t.hooks),
                                          LAMBDA n : IsFiniteNum(ToNumber(n))),
                                ToNumber),
                         InUnit),
     todos |-> Take(Uniq(base.todos \o t.todos), MAX_TODOS_PER_THREAD),
     createdAt |-> IF t.createdAt # <<>> THEN t.createdAt ELSE base.createdAt,
     updatedAt |-> <<now>>]

\* the merged thread of upsertThread; t = [name, status, notes, hooks, todos, createdAt]
mergeThread(base, t, now) ==
    [name |-> IF t.name # Missing THEN t.name ELSE base.name,
     status |-> IF t.status # "" THEN t.status
                ELSE IF base.status # "" THEN base.status ELSE "open",
     notes |-> IF t.notes # Missing THEN t.notes ELSE base.notes,
     hooks |-> SelectSeq(MapSeq(SelectSeq(Uniq(base.hooks \o t.hooks),
                                          LAMBDA n : IsFiniteNum(ToNumber(n))),
                                ToNumber),
                         InUnit),
     todos |-> Take(Uniq(base.todos \o t.todos), MAX_TODOS_PER_THREAD),
     createdAt |-> IF t.createdAt # <<>> THEN t.createdAt ELSE base.createdAt,
     updatedAt |-> <<now>>]

NoPut(b) == [put |-> FALSE, b |-> b]
Put(b) == [put |-> TRUE, b |-> b]

\* the name check left out: a thread is saved whatever its name
upsertThreadBodyUnchecked(b, t, now) ==
    LET name == Trim(OrEmpty(t.name))
        i == ThreadIdx(b, name)
        base == IF i > 0 THEN b.threads[i]
                ELSE [name |-> name, status |-> "open", notes |-> Missing, hooks |-> <<>>,
                      todos |-> <<>>, createdAt |-> <<now>>, updatedAt |-> <<>>]
        merged == mergeThread(base, t, now)
    IN Put([b EXCEPT !.threads = IF i > 0 THEN [@ EXCEPT ![i] = merged]
                                  ELSE Append(@, merged),
                     !.updatedAt = now])

upsertThreadBody(b, t, now) ==
    LET name == Trim(OrEmpty(t.name))
        i == ThreadIdx(b, name)
        base == IF i > 0 THEN b.threads[i]
                ELSE [name |-> name, status |-> "open", notes |-> Missing, hooks |-> <<>>,
                      todos |-> <<>>, createdAt |-> <<now>>, updatedAt |-> <<>>]
        merged == mergeThread(base, t, now)
    IN IF name = <<>> THEN NoPut(b)
       ELSE Put([b EXCEPT !.threads = IF i > 0 THEN [@ EXCEPT ![i] = merged]
                                       ELSE Append(@, merged),
                          !.updatedAt = now])

closeThreadBody(b, name, now) ==
    LET i == ThreadIdx(b, name)
    IN IF i > 0
       THEN Put([b EXCEPT !.threads[i].status = "closed", !.threads[i].updatedAt = <<now>>])
       ELSE NoPut(b)

\* the splice cut short: the entry and everything after it goes
RemoveFrom(s, i) == SubSeq(s, 1, i - 1)

RemoveAt(s, i) == SubSeq(s, 1, i - 1) \o SubSeq(s, i + 1, Len(s))

removeEntityBody(b, id, now) ==
    LET i == EntIdx(b, id)
    IN IF i > 0 THEN Put([b EXCEPT !.entities = RemoveAt(@, i), !.updatedAt = now])
       ELSE NoPut(b)

removeThreadBody(b, name, now) ==
    LET i == ThreadIdx(b, name)
    IN IF i = 0 THEN NoPut(b)
       ELSE Put([b EXCEPT !.threads = RemoveAt(@, i), !.updatedAt = now])

addEvidenceBody(b, id, ev, now) ==
    LET i == EntIdx(b, id)
    IN IF i = 0 THEN NoPut(b)
       ELSE Put([b EXCEPT !.entities[i].v.evidence = dedupeEvidence(@ \o <<ev>>),
                          !.updatedAt = now])

RECURSIVE styleMerge(_, _)
\* { ...cur, ...incoming } for style records kept as [k, v] entries
styleMerge(cur, inc) ==
    IF inc = <<>> THEN cur
    ELSE styleMerge(AttrSet(cur, Head(inc).k, Head(inc).v), Tail(inc))

\* what one step of an operation does once getBible has returned b
Body(sub, b, now) ==
    CASE sub.kind = "getBible" -> NoPut(b)
      [] sub.kind = "upsertEntity" -> Put([upsertInto(b, sub.e) EXCEPT !.updatedAt = now])
      [] sub.kind = "upsertEntities" -> Put([upsertAll(b, sub.es) EXCEPT !.updatedAt = now])
      [] sub.kind = "addEvidence" -> addEvidenceBody(b, sub.id, sub.ev, now)
      [] sub.kind = "upsertThread" -> upsertThreadBody(b, sub.t, now)
      [] sub.kind = "closeThread" -> closeThreadBody(b, sub.name, now)
      [] sub.kind = "removeEntity" -> removeEntityBody(b, sub.id, now)
      [] sub.kind = "removeThread" -> removeThreadBody(b, sub.name, now)
      [] sub.kind = "exportBible" -> NoPut(b)
      [] sub.kind = "searchBible" -> NoPut(b)
      [] sub.kind = "getSnapshotForLLM" -> NoPut(b)
      [] sub.kind = "style" -> Put([b EXCEPT !.style = styleMerge(@, sub.style)])

\* the entity list importBible builds from incoming.entities, entries [k, v]
importEntList(entries) ==
    MapSeq(entries, LAMBDA x :
        [id |-> x.k,
         type |-> normalizeType(IF OrEmpty(x.v.type) = <<>> THEN SplitFirst(x.k) ELSE x.v.type),
         attrs |-> x.v.attrs, evidence |-> x.v.evidence])

\* the thread importBible hands to upsertThread for a thread t of incoming.threads
importThread(t) ==
    [name |-> OrEmpty(t.name),
     status |-> IF t.status = "closed" THEN "closed" ELSE "open",
     notes |-> IF t.notes = Missing THEN Undef ELSE t.notes,
     hooks |-> t.hooks, todos |-> t.todos, createdAt |-> <<>>]

\* the getBible/putBible rounds of importBible(projectId, incoming), in order;
\* incoming = [entities, threads, style], a missing member being empty
importWork(inc) ==
    <<[kind |-> "getBible"]>>
    \o (IF inc.entities = <<>> THEN <<>>
        ELSE <<[kind |-> "upsertEntities", es |-> importEntList(inc.entities)]>>)
    \o MapSeq(inc.threads, LAMBDA t : [kind |-> "upsertThread", t |-> importThread(t)])
    \o <<[kind |-> "style", style |-> inc.style]>>

(***************************************************************************)
(* State.  Every operation is an async function: it runs without           *)
(* interruption between two storage calls, and other operations' storage   *)
(* calls may complete in between.  A call slot holds one operation in      *)
(* flight: the rounds (getBible, body, putBible) still to run, the bucket  *)
(* it loaded and the aggregate it holds.                                   *)
(***************************************************************************)
VARIABLES
    store,      \* the bucket under KEY: project id -> stored aggregate
    clock,      \* Date.now()
    calls,      \* call slot -> the operation in flight
    hasChrome,  \* which storage shim the build selected
    lastWriter, \* the slot of the latest storage write, 0 before any
    ports       \* message port -> the runtime message the router is answering

vars == <<store, clock, calls, hasChrome, lastWriter, ports>>

Calls == {1, 2}

EmptyBucket == [x \in {} |-> 0]
BucketPut(all, p, b) == [x \in (DOMAIN all) \cup {p} |-> IF x = p THEN b ELSE all[x]]
BucketDel(all, p) == [x \in (DOMAIN all) \ {p} |-> all[x]]

NoBible == NewBible("", 0)
\* ret is what the operation's promise resolved with: <<>> for undefined,
\* <<v>> for a value v; sets counts the storage.set calls the operation has
\* completed
Idle == [pc |-> "idle", op |-> "", p |-> "", arg |-> <<>>, work |-> <<>>,
         all |-> EmptyBucket, b |-> NoBible, failed |-> FALSE, ret |-> <<>>, sets |-> 0]

\* JSON serialisation of a stored value: a property holding undefined is
\* dropped, and a number that is NaN is written as null
jsonField(v) == IF v = Undef THEN Missing ELSE v
jsonNumber(n) == IF n = spanNaN THEN spanNull ELSE n
jsonBible(b) ==
    [b EXCEPT !.threads = MapSeq(@, LAMBDA t :
                 [t EXCEPT !.name = jsonField(@), !.notes = jsonField(@)]),
              !.entities = MapSeq(@, LAMBDA e :
                 [e EXCEPT !.v.evidence = MapSeq(@, LAMBDA ev :
                     [ev EXCEPT !.chapterId = jsonField(@), !.quote = jsonField(@),
                                !.span = MapSeq(@, jsonNumber)])])]
Serialize(all) == [x \in DOMAIN all |-> jsonBible(all[x])]

\* where a round starts: putBible and clearBible call getAll themselves
StartPc(sub) == CASE sub.kind = "putBible" -> "pbGet"
                  [] sub.kind = "clearBible" -> "clGet"
                  [] sub.kind = "listProjectIds" -> "lsGet"
                  [] OTHER -> "gbGet"

(***************************************************************************)
(* The read paths: searchBible and getSnapshotForLLM compute their result  *)
(* from the aggregate getBible returned.                                   *)
(***************************************************************************)
\* String.prototype.includes
Includes(s, sub) == \E i \in 0..(Len(s) - Len(sub)) : SubSeq(s, i + 1, i + Len(sub)) = sub

RECURSIVE Join(_, _)
\* Array.prototype.join
Join(ss, sep) == IF ss = <<>> THEN <<>>
                 ELSE IF Len(ss) = 1 THEN ss[1]
                 ELSE ss[1] \o sep \o Join(Tail(ss), sep)

RECURSIVE JsonEscape(_)
\* the escapes JSON.stringify applies to a quote and a backslash (the inputs
\* hold no control characters)
JsonEscape(str) ==
    IF str = <<>> THEN <<>>
    ELSE (IF Head(str) \in {"\"", "\\"} THEN <<"\\", Head(str)>> ELSE <<Head(str)>>)
         \o JsonEscape(Tail(str))
JsonStr(str) == <<"\"">> \o JsonEscape(str) \o <<"\"">>
JsonVal(v) ==
    CASE v.t = "str" -> JsonStr(v.v[1])
      [] v.t = "arr" -> <<"[">> \o Join([i \in 1..Len(v.v) |-> JsonStr(v.v[i])], <<",">>) \o <<"]">>
      [] v.t = "num" -> v.v[1]
      [] v.t = "null" -> <<"n","u","l","l">>
\* JSON.stringify(e.attrs)
JsonAttrs(attrs) ==
    <<"{">> \o Join([i \in 1..Len(attrs) |->
                        JsonStr(attrs[i].k) \o <<":">> \o JsonVal(attrs[i].v)], <<",">>)
           \o <<"}">>

\* a string member in a concatenation: undefined reads "undefined"
Shown(v) == IF Absent(v) THEN <<"u","n","d","e","f","i","n","e","d">> ELSE v

\* toLowerCase left out of the entity's blob
entityBlobCased(e) == Shown(e.id) \o <<" ">> \o Shown(e.type) \o <<" ">> \o JsonAttrs(e.attrs)

entityBlob(e) == ToLower(Shown(e.id) \o <<" ">> \o Shown(e.type) \o <<" ">> \o JsonAttrs(e.attrs))
threadBlob(t) ==
    ToLower(Shown(t.name) \o <<" ">> \o OrEmpty(t.notes) \o <<" ">> \o Join(t.todos, <<" ">>))

searchResult(b, q) ==
    LET qq == Trim(ToLower(OrEmpty(q)))
    IN [entities |-> SelectSeq([i \in 1..Len(b.entities) |-> b.entities[i].v],
                               LAMBDA e : qq = <<>> \/ Includes(entityBlob(e), qq)),
        threads |-> SelectSeq(b.threads, LAMBDA t : qq = <<>> \/ Includes(threadBlob(t), qq)),
        style |-> b.style]

\* the snapshot's defaults and fixed cuts, scaled down:
\* maxEntities = 60 in the source
SnapEntities == 2
\* maxAttrsPerEntity = 6 in the source
SnapAttrs == 1
\* slice(-20) of the threads in the source, below MAX_THREADS as there
SnapThreads == 1
\* slice(0, 6) of a thread's hooks in the source
SnapHooks == 2

\* the cut left out
Slice0Whole(arr, n) == arr

\* Array.prototype.slice(0, n) and slice(-n)
Slice0(arr, n) == IF n >= 0 THEN Take(arr, n)
                  ELSE IF Len(arr) + n > 0 THEN Take(arr, Len(arr) + n) ELSE <<>>

RECURSIVE sortByEvidenceTiesTurned(_)
\* the sort made unstable: of two entities with equal counts the later is first
sortByEvidenceTiesTurned(ents) ==
    IF ents = <<>> THEN <<>>
    ELSE LET n == Len(ents)
             r == sortByEvidenceTiesTurned(SubSeq(ents, 1, n - 1))
             x == ents[n]
             k == Cardinality({i \in 1..Len(r) : Len(r[i].evidence) > Len(x.evidence)})
         IN SubSeq(r, 1, k) \o <<x>> \o SubSeq(r, k + 1, Len(r))

RECURSIVE sortByEvidence(_)
\* sort((a, z) => z.evidence.length - a.evidence.length): descending, stable
sortByEvidence(ents) ==
    IF ents = <<>> THEN <<>>
    ELSE LET n == Len(ents)
             r == sortByEvidence(SubSeq(ents, 1, n - 1))
             x == ents[n]
             k == Cardinality({i \in 1..Len(r) : Len(r[i].evidence) >= Len(x.evidence)})
         IN SubSeq(r, 1, k) \o <<x>> \o SubSeq(r, k + 1, Len(r))

\* opts = [maxEntities, maxAttrsPerEntity], each <<>> when not given
snapshotResult(b, opts) ==
    LET maxEntities == IF opts.maxEntities = <<>> THEN SnapEntities ELSE opts.maxEntities[1]
        maxAttrsPerEntity == IF opts.maxAttrsPerEntity = <<>> THEN SnapAttrs
                             ELSE opts.maxAttrsPerEntity[1]
        ents == Slice0(sortByEvidence([i \in 1..Len(b.entities) |-> b.entities[i].v]), maxEntities)
    IN [entities |-> [i \in 1..Len(ents) |->
                         [id |-> ents[i].id, type |-> ents[i].type,
                          attrs |-> Slice0(ents[i].attrs, maxAttrsPerEntity)]],
        threads |-> MapSeq(TakeLast(b.threads, SnapThreads), LAMBDA t :
                         [name |-> t.name, status |-> t.status, notes |-> t.notes,
                          hooks |-> Take(t.hooks, SnapHooks)]),
        style |-> b.style,
        updatedAt |-> b.updatedAt]

\* what an operation that ends with the aggregate b of getBible returns
Returned(sub, b) ==
    CASE sub.kind = "getBible" -> <<b>>
      [] sub.kind = "exportBible" -> <<jsonBible(b)>>
      [] sub.kind = "searchBible" -> <<searchResult(b, sub.q)>>
      [] sub.kind = "getSnapshotForLLM" -> <<snapshotResult(b, sub.opts)>>
      [] OTHER -> <<>>

\* the call record once its current round has returned
Pop(cr) ==
    LET w == Tail(cr.work)
    IN IF w = <<>>
       THEN [cr EXCEPT !.pc = "resolved", !.work = <<>>, !.all = EmptyBucket, !.b = NoBible,
                       !.ret = <<>>]
       ELSE [cr EXCEPT !.pc = StartPc(Head(w)), !.work = w, !.all = EmptyBucket,
                       !.b = IF Head(w).kind = "putBible" THEN Head(w).b ELSE NoBible,
                       !.ret = <<>>]

\* the call record once getBible has returned migrated
AfterGetBible(cr, migrated, now) ==
    LET r == Body(Head(cr.work), migrated, now)
    IN IF r.put THEN [cr EXCEPT !.pc = "pbGet", !.all = EmptyBucket, !.b = r.b]
       ELSE IF Tail(cr.work) = <<>>
       THEN [Pop(cr) EXCEPT !.ret = Returned(Head(cr.work), migrated)]
       ELSE Pop(cr)

\* putBible's all[b.projectId] = pruneBible({ ...b, updatedAt: now(), schemaVersion })
putStamp(b, now) ==
    pruneBible([b EXCEPT !.updatedAt = now, !.schemaVersion = <<SCHEMA_VERSION>>])

\* the save of the default aggregate left out: getBible returns it unsaved
AfterGetDefaultUnsaved(cr, all, now) ==
    CASE cr.pc = "gbGet" ->
            IF cr.p \in DOMAIN all
            THEN AfterGetBible(cr, migrate(all[cr.p], cr.p), now)
            ELSE AfterGetBible(cr, NewBible(cr.p, now), now)
      [] cr.pc = "pbGet" ->
            [cr EXCEPT !.pc = "pbSet", !.b = NoBible,
                       !.all = BucketPut(all, cr.b.projectId, putStamp(cr.b, now))]
      [] cr.pc = "clGet" ->
            [cr EXCEPT !.pc = "clSet", !.all = BucketDel(all, cr.p)]
      [] cr.pc = "lsGet" -> [Pop(cr) EXCEPT !.ret = <<DOMAIN all>>]

\* the continuation of a call whose storage.get returned the bucket all
AfterGet(cr, all, now) ==
    CASE cr.pc = "gbGet" ->
            IF cr.p \in DOMAIN all
            THEN AfterGetBible(cr, migrate(all[cr.p], cr.p), now)
            ELSE [cr EXCEPT !.pc = "gbSet", !.b = NewBible(cr.p, now),
                            !.all = BucketPut(all, cr.p, NewBible(cr.p, now))]
      [] cr.pc = "pbGet" ->
            [cr EXCEPT !.pc = "pbSet", !.b = NoBible,
                       !.all = BucketPut(all, cr.b.projectId, putStamp(cr.b, now))]
      [] cr.pc = "clGet" ->
            [cr EXCEPT !.pc = "clSet", !.all = BucketDel(all, cr.p)]
      [] cr.pc = "lsGet" -> [Pop(cr) EXCEPT !.ret = <<DOMAIN all>>]

\* the continuation of a call whose storage.set returned
AfterSet(cr, now) ==
    CASE cr.pc = "gbSet" -> AfterGetBible(cr, cr.b, now)
      [] cr.pc = "pbSet" -> Pop(cr)
      [] cr.pc = "clSet" -> Pop(cr)

AtGet(cr) == cr.pc \in {"gbGet", "pbGet", "clGet", "lsGet"}
AtSet(cr) == cr.pc \in {"gbSet", "pbSet", "clSet"}

\* storage.get(KEY) completes: getAll returns r[KEY] || {}
StorageGet(c) ==
    /\ AtGet(calls[c])
    /\ calls' = [calls EXCEPT ![c] = AfterGet(@, store, clock)]
    /\ UNCHANGED <<store, clock, hasChrome, lastWriter, ports>>

\* storage.set({ [KEY]: all }) completes
StorageSet(c) ==
    /\ AtSet(calls[c])
    /\ store' = Serialize(calls[c].all)
    /\ lastWriter' = c
    /\ calls' = [calls EXCEPT ![c] = [AfterSet(@, clock) EXCEPT !.sets = @ + 1]]
    /\ UNCHANGED <<clock, hasChrome, ports>>

(***************************************************************************)
(* A storage call that fails.  The chrome shim (lines 253-264) resolves    *)
(* from the callback whatever chrome.runtime.lastError says: a failed get  *)
(* calls back with r undefined and resolves {}, a failed set calls back    *)
(* and resolves.  The localStorage shim (lines 270-278) throws, and the    *)
(* rejection runs up the awaits to the operation's caller.                 *)
(***************************************************************************)
StorageGetFails(c) ==
    /\ AtGet(calls[c])
    /\ calls' = [calls EXCEPT ![c] =
                    IF hasChrome THEN [AfterGet(@, EmptyBucket, clock) EXCEPT !.failed = TRUE]
                    ELSE [@ EXCEPT !.pc = "rejected", !.failed = TRUE, !.work = <<>>,
                                   !.all = EmptyBucket, !.b = NoBible]]
    /\ UNCHANGED <<store, clock, hasChrome, lastWriter, ports>>

StorageSetFails(c) ==
    /\ AtSet(calls[c])
    /\ calls' = [calls EXCEPT ![c] =
                    IF hasChrome THEN [AfterSet(@, clock) EXCEPT !.failed = TRUE]
                    ELSE [@ EXCEPT !.pc = "rejected", !.failed = TRUE, !.work = <<>>,
                                   !.all = EmptyBucket, !.b = NoBible]]
    /\ UNCHANGED <<store, clock, hasChrome, lastWriter, ports>>

\* the caller takes the settled promise; the slot is free again
Return(c) ==
    /\ calls[c].pc \in {"resolved", "rejected"}
    /\ calls' = [calls EXCEPT ![c] = Idle]
    /\ UNCHANGED <<store, clock, hasChrome, lastWriter, ports>>

\* time passes
Tick ==
    /\ clock < MaxClock
    /\ clock' = clock + 1
    /\ UNCHANGED <<store, calls, hasChrome, lastWriter, ports>>

\* an operation is called: it runs to its first storage call (an operation
\* with no round to run, upsertEntities of an empty batch, resolves at once)
Started(op, p, arg, work) ==
    IF work = <<>>
    THEN [Idle EXCEPT !.pc = "resolved", !.op = op, !.p = p, !.arg = arg]
    ELSE [Idle EXCEPT !.pc = StartPc(Head(work)), !.op = op, !.p = p, !.arg = arg,
                      !.work = work,
                      !.b = IF Head(work).kind = "putBible" THEN Head(work).b ELSE NoBible]

getBible(c, p) ==
    /\ calls[c].pc = "idle"
    /\ calls' = [calls EXCEPT ![c] = Started("getBible", p, <<>>, <<[kind |-> "getBible"]>>)]
    /\ UNCHANGED <<store, clock, hasChrome, lastWriter, ports>>

putBible(c, b) ==
    /\ calls[c].pc = "idle"
    /\ calls' = [calls EXCEPT ![c] =
                    Started("putBible", b.projectId, b, <<[kind |-> "putBible", b |-> b]>>)]
    /\ UNCHANGED <<store, clock, hasChrome, lastWriter, ports>>

upsertEntity(c, p, e) ==
    /\ calls[c].pc = "idle"
    /\ calls' = [calls EXCEPT ![c] =
                    Started("upsertEntity", p, e, <<[kind |-> "upsertEntity", e |-> e]>>)]
    /\ UNCHANGED <<store, clock, hasChrome, lastWriter, ports>>

addEvidence(c, p, id, ev) ==
    /\ calls[c].pc = "idle"
    /\ calls' = [calls EXCEPT ![c] =
                    Started("addEvidence", p, [id |-> id, ev |-> ev],
                            <<[kind |-> "addEvidence", id |-> id, ev |-> ev]>>)]
    /\ UNCHANGED <<store, clock, hasChrome, lastWriter, ports>>

upsertEntities(c, p, es) ==
    /\ calls[c].pc = "idle"
    /\ calls' = [calls EXCEPT ![c] =
                    Started("upsertEntities", p, es,
                            IF es = <<>> THEN <<>>
                            ELSE <<[kind |-> "upsertEntities", es |-> es]>>)]
    /\ UNCHANGED <<store, clock, hasChrome, lastWriter, ports>>

upsertThread(c, p, t) ==
    /\ calls[c].pc = "idle"
    /\ calls' = [calls EXCEPT ![c] =
                    Started("upsertThread", p, t, <<[kind |-> "upsertThread", t |-> t]>>)]
    /\ UNCHANGED <<store, clock, hasChrome, lastWriter, ports>>

closeThread(c, p, name) ==
    /\ calls[c].pc = "idle"
    /\ calls' = [calls EXCEPT ![c] =
                    Started("closeThread", p, name, <<[kind |-> "closeThread", name |-> name]>>)]
    /\ UNCHANGED <<store, clock, hasChrome, lastWriter, ports>>

removeEntity(c, p, id) ==
    /\ calls[c].pc = "idle"
    /\ calls' = [calls EXCEPT ![c] =
                    Started("removeEntity", p, id, <<[kind |-> "removeEntity", id |-> id]>>)]
    /\ UNCHANGED <<store, clock, hasChrome, lastWriter, ports>>

removeThread(c, p, name) ==
    /\ calls[c].pc = "idle"
    /\ calls' = [calls EXCEPT ![c] =
                    Started("removeThread", p, name, <<[kind |-> "removeThread", name |-> name]>>)]
    /\ UNCHANGED <<store, clock, hasChrome, lastWriter, ports>>

importBible(c, p, inc) ==
    /\ calls[c].pc = "idle"
    /\ calls' = [calls EXCEPT ![c] = Started("importBible", p, inc, importWork(inc))]
    /\ UNCHANGED <<store, clock, hasChrome, lastWriter, ports>>

clearBible(c, p) ==
    /\ calls[c].pc = "idle"
    /\ calls' = [calls EXCEPT ![c] = Started("clearBible", p, <<>>, <<[kind |-> "clearBible"]>>)]
    /\ UNCHANGED <<store, clock, hasChrome, lastWriter, ports>>

listProjectIds(c) ==
    /\ calls[c].pc = "idle"
    /\ calls' = [calls EXCEPT ![c] =
                    Started("listProjectIds", "", <<>>, <<[kind |-> "listProjectIds"]>>)]
    /\ UNCHANGED <<store, clock, hasChrome, lastWriter, ports>>

searchBible(c, p, q) ==
    /\ calls[c].pc = "idle"
    /\ calls' = [calls EXCEPT ![c] =
                    Started("searchBible", p, q, <<[kind |-> "searchBible", q |-> q]>>)]
    /\ UNCHANGED <<store, clock, hasChrome, lastWriter, ports>>

getSnapshotForLLM(c, p, opts) ==
    /\ calls[c].pc = "idle"
    /\ calls' = [calls EXCEPT ![c] =
                    Started("getSnapshotForLLM", p, opts,
                            <<[kind |-> "getSnapshotForLLM", opts |-> opts]>>)]
    /\ UNCHANGED <<store, clock, hasChrome, lastWriter, ports>>

\* the caller of exportBible hands the copy it was given to importBible
importExported(c) ==
    /\ calls[c].pc = "resolved" /\ calls[c].op = "exportBible"
    /\ LET exported == calls[c].ret[1]
           incoming == [entities |-> exported.entities, threads |-> exported.threads,
                        style |-> exported.style]
       IN calls' = [calls EXCEPT ![c] =
                       Started("importBible", calls[c].p, incoming, importWork(incoming))]
    /\ UNCHANGED <<store, clock, hasChrome, lastWriter, ports>>

exportBible(c, p) ==
    /\ calls[c].pc = "idle"
    /\ calls' = [calls EXCEPT ![c] = Started("exportBible", p, <<>>, <<[kind |-> "exportBible"]>>)]
    /\ UNCHANGED <<store, clock, hasChrome, lastWriter, ports>>

(***************************************************************************)
(* The message router of the service worker (background.ts:112-195).  A    *)
(* port holds one runtime message from the call of the listener to the     *)
(* moment its sender is done with it: the step the handler is awaiting,    *)
(* the responses sendResponse was called with, and the calls awaited so    *)
(* far with their results.  A browser call delivers a value, an error      *)
(* (chrome.runtime.lastError, a rejected fetch, a response that is not ok) *)
(* or nothing (no token, no active tab).  sendResponse does not throw.     *)
(***************************************************************************)
EXPORT_REQUEST == "STORYLENS_EXPORT_REQUEST"
CONNECT_REQUEST == "STORYLENS_CONNECT_REQUEST"
TOGGLE_REQUEST == "STORYLENS_TOGGLE_REQUEST"
TOGGLE_PANEL == "STORYLENS_TOGGLE"
PING == "SL_PING"
INSERT_TEXT_REQUEST == "STORYLENS_INSERT_TEXT_REQUEST"

Ports == {1, 2}

\* sendResponse({ ok: true }), ({ ok: true, origin, text }), ({ ok: false, error })
RespOk == [ok |-> TRUE, origin |-> "", error |-> ""]
RespText(origin) == [ok |-> TRUE, origin |-> origin, error |-> ""]
RespError(e) == [ok |-> FALSE, origin |-> "", error |-> e]

\* the call a handler is awaiting at each step
AwaitedCall(pc) ==
    CASE pc = "silent" -> "getAuthToken(false)"
      [] pc \in {"interactive", "connect", "reauth"} -> "getAuthToken(true)"
      [] pc \in {"drive1", "drive2"} -> "driveExportText"
      [] pc \in {"docs1", "docs2"} -> "docsGetFlatten"
      [] pc = "remove" -> "removeToken"
      [] pc = "append" -> "docsAppendText"
      [] pc = "query" -> "tabs.query"
      [] pc = "send" -> "tabs.sendMessage"

\* what the browser can deliver to each call
Results(call) ==
    CASE call \in {"getAuthToken(false)", "getAuthToken(true)", "tabs.query"}
            -> {"value", "error", "nothing"}
      [] call \in {"driveExportText", "docsGetFlatten", "docsAppendText", "tabs.sendMessage"}
            -> {"value", "error"}
      [] call = "removeToken" -> {"value"}

\* whether the promise of the call is fulfilled: getAuthToken rejects on
\* lastError or no token, a fetch helper throws unless the response is ok,
\* removeToken and the sendMessage relay resolve from their callback whatever
\* happened, tabs.query resolves with the tabs found, none included
Fulfils(call, result) ==
    CASE call \in {"getAuthToken(false)", "getAuthToken(true)"} -> result = "value"
      [] call \in {"driveExportText", "docsGetFlatten", "docsAppendText"} -> result = "value"
      [] call \in {"removeToken", "tabs.sendMessage"} -> TRUE
      [] call = "tabs.query" -> result # "error"

Goes(pc) == [pc |-> pc, send |-> <<>>]
Ends(resp) == [pc |-> "done", send |-> <<resp>>]

\* the catch left out: a failed connect is not answered
connectSettledSilent(pc, result) ==
    IF Fulfils(AwaitedCall(pc), result) THEN Ends(RespOk) ELSE [pc |-> "done", send |-> <<>>]

\* the CONNECT_REQUEST handler once getAuthToken(true) has settled
connectSettled(pc, result) ==
    IF Fulfils(AwaitedCall(pc), result) THEN Ends(RespOk)
    ELSE Ends(RespError(AwaitedCall(pc)))

\* the refresh left out: the handler gives up when the docs api has failed
exportSettledNoRefresh(pc, result) ==
    LET ok == Fulfils(AwaitedCall(pc), result)
        fail == Ends(RespError(AwaitedCall(pc)))
    IN CASE pc = "silent" -> IF ok THEN Goes("drive1") ELSE Goes("interactive")
         [] pc = "interactive" -> IF ok THEN Goes("drive1") ELSE fail
         [] pc = "drive1" -> IF ok THEN Ends(RespText("drive_export")) ELSE Goes("docs1")
         [] pc = "docs1" -> IF ok THEN Ends(RespText("docs_api")) ELSE fail
         [] pc = "remove" -> Goes("reauth")
         [] pc = "reauth" -> IF ok THEN Goes("drive2") ELSE fail
         [] pc = "drive2" -> IF ok THEN Ends(RespText("drive_export")) ELSE Goes("docs2")
         [] pc = "docs2" -> IF ok THEN Ends(RespText("docs_api")) ELSE fail

\* the EXPORT_REQUEST handler once the call awaited at pc has settled
exportSettled(pc, result) ==
    LET ok == Fulfils(AwaitedCall(pc), result)
        fail == Ends(RespError(AwaitedCall(pc)))
    IN CASE pc = "silent" -> IF ok THEN Goes("drive1") ELSE Goes("interactive")
         [] pc = "interactive" -> IF ok THEN Goes("drive1") ELSE fail
         [] pc = "drive1" -> IF ok THEN Ends(RespText("drive_export")) ELSE Goes("docs1")
         [] pc = "docs1" -> IF ok THEN Ends(RespText("docs_api")) ELSE Goes("remove")
         [] pc = "remove" -> Goes("reauth")
         [] pc = "reauth" -> IF ok THEN Goes("drive2") ELSE fail
         [] pc = "drive2" -> IF ok THEN Ends(RespText("drive_export")) ELSE Goes("docs2")
         [] pc = "docs2" -> IF ok THEN Ends(RespText("docs_api")) ELSE fail

\* the INSERT_TEXT_REQUEST handler once the call awaited at pc has settled
insertSettled(pc, result) ==
    LET ok == Fulfils(AwaitedCall(pc), result)
        fail == Ends(RespError(AwaitedCall(pc)))
    IN CASE pc = "silent" -> IF ok THEN Goes("append") ELSE Goes("interactive")
         [] pc = "interactive" -> IF ok THEN Goes("append") ELSE fail
         [] pc = "append" -> IF ok THEN Ends(RespOk) ELSE fail

\* forwardPanelToggle().then(...).catch(...) once the call awaited at pc has
\* settled: without an active tab the relay returns and the toggle is answered
toggleSettled(pc, result) ==
    CASE pc = "query" -> IF ~Fulfils(AwaitedCall(pc), result)
                         THEN Ends(RespError(AwaitedCall(pc)))
                         ELSE IF result = "nothing" THEN Ends(RespOk) ELSE Goes("send")
      [] pc = "send" -> Ends(RespOk)

NoMessage == [type |-> "", fileId |-> "", text |-> ""]
Closed == [msg |-> NoMessage, pc |-> "idle", sent |-> <<>>, log |-> <<>>, open |-> FALSE]

\* the listener's run up to its return: open is whether it returned true
listener(msg) ==
    LET at(pc) == [Closed EXCEPT !.msg = msg, !.pc = pc, !.open = TRUE]
    IN CASE msg.type = "" -> [Closed EXCEPT !.msg = msg, !.pc = "done"]
         [] msg.type = PING -> [at("done") EXCEPT !.sent = <<RespOk>>]
         [] msg.type = CONNECT_REQUEST -> at("connect")
         [] msg.type = EXPORT_REQUEST -> at("silent")
         [] msg.type = INSERT_TEXT_REQUEST ->
                IF msg.fileId = "" \/ msg.text = ""
                THEN [at("done") EXCEPT !.sent = <<RespError("missing fileId/text")>>]
                ELSE at("silent")
         [] msg.type = TOGGLE_REQUEST -> at("query")
         [] OTHER -> [Closed EXCEPT !.msg = msg, !.pc = "done"]

\* the handler of the port's message once its awaited call has settled
settled(port, result) ==
    LET r == CASE port.msg.type = CONNECT_REQUEST -> connectSettled(port.pc, result)
               [] port.msg.type = EXPORT_REQUEST -> exportSettled(port.pc, result)
               [] port.msg.type = INSERT_TEXT_REQUEST -> insertSettled(port.pc, result)
               [] port.msg.type = TOGGLE_REQUEST -> toggleSettled(port.pc, result)
    IN [port EXCEPT !.pc = r.pc, !.sent = @ \o r.send,
                    !.log = Append(@, [call |-> AwaitedCall(port.pc), result |-> result])]

\* a runtime message arrives and the listener runs
onMessage(i, msg) ==
    /\ ports[i].pc = "idle"
    /\ ports' = [ports EXCEPT ![i] = listener(msg)]
    /\ UNCHANGED <<store, clock, calls, hasChrome, lastWriter>>

\* the call a handler is awaiting settles and the handler runs on
Settles(i) ==
    /\ ports[i].pc \notin {"idle", "done"}
    /\ \E result \in Results(AwaitedCall(ports[i].pc)) :
          ports' = [ports EXCEPT ![i] = settled(@, result)]
    /\ UNCHANGED <<store, clock, calls, hasChrome, lastWriter>>

\* the sender is done with the message; the port is free again
Release(i) ==
    /\ ports[i].pc = "done"
    /\ ports' = [ports EXCEPT ![i] = Closed]
    /\ UNCHANGED <<store, clock, calls, hasChrome, lastWriter>>

(***************************************************************************)
(* Inputs                                                                  *)
(***************************************************************************)
Ent(id, type, attrs, evidence) ==
    [id |-> id, type |-> type, attrs |-> attrs, evidence |-> evidence]
Entry(e) == [k |-> e.id, v |-> e]
Ev(chapterId, span, quote) == [chapterId |-> chapterId, span |-> span, quote |-> quote]
\* a thread delta
Thr(name, status, notes, hooks, todos) ==
    [name |-> name, status |-> status, notes |-> notes, hooks |-> hooks, todos |-> todos,
     createdAt |-> <<>>]
\* a thread of an aggregate handed to putBible or importBible
RawThr(name, status, hooks, todos) ==
    [name |-> name, status |-> status, notes |-> Missing, hooks |-> hooks, todos |-> todos,
     createdAt |-> <<>>, updatedAt |-> <<>>]

\* one name more than the cap, so that the cap is crossed whatever it is
EntName(i) == <<"E", Digits[i + 1]>>
EntNames == {EntName(i) : i \in 1..(MAX_ENTITIES + 1)}
ThreadName(i) == <<"t", Digits[i + 1]>>
ThreadNames == {ThreadName(i) : i \in 1..(MAX_THREADS + 1)}
CharacterId(n) == tCharacter \o <<":">> \o n

idM == <<"M">>
idK == <<"K">>
idLocationM == tLocation \o <<":">> \o idM
idFooK == <<"F","o","o",":","K">>

\* a record of p1 an earlier release left (no schemaVersion field), and one a
\* later release wrote (schemaVersion above SCHEMA_VERSION)
LegacyBible == [NewBible("p1", 0) EXCEPT !.schemaVersion = <<>>]
FutureBible == [NewBible("p1", 0) EXCEPT !.schemaVersion = <<SCHEMA_VERSION + 1>>]
Buckets == {EmptyBucket, BucketPut(EmptyBucket, "p1", LegacyBible),
            BucketPut(EmptyBucket, "p1", FutureBible)}

InitWith(buckets, shims) ==
    /\ store \in buckets
    /\ clock = 0
    /\ calls = [c \in Calls |-> Idle]
    /\ hasChrome \in shims
    /\ lastWriter = 0
    /\ ports = [i \in Ports |-> Closed]

\* the storage calls of the operations in flight complete, in any order
Storage ==
    \/ \E c \in Calls : StorageGet(c)
    \/ \E c \in Calls : StorageSet(c)
    \/ \E c \in Calls : Return(c)

(***************************************************************************)
(* Spec: every mutating operation on one project, each awaited before the  *)
(* next is called, from an empty bucket or one holding an older or newer   *)
(* release's record.  Entity and thread names run past their caps.         *)
(***************************************************************************)
SpecEntities ==
    {Ent(n, tCharacter, <<>>, <<>>) : n \in EntNames}
    \cup {Ent(idLocationM, tCharacter, <<>>, <<>>), Ent(idFooK, Undef, <<>>, <<>>)}
SpecBatches == {<<e, Ent(EntName(1), tCharacter, <<>>, <<>>)>> : e \in SpecEntities}
SpecIds == {CharacterId(n) : n \in EntNames}
SpecThreads == {Thr(n, "", Missing, <<>>, <<>>) : n \in ThreadNames}
OverfullBible ==
    [NewBible("p1", 0) EXCEPT
        !.entities = [i \in 1..(MAX_ENTITIES + 1) |->
                         Entry(Ent(CharacterId(EntName(i)), tCharacter, <<>>, <<>>))],
        !.threads = [i \in 1..(MAX_THREADS + 1) |-> RawThr(ThreadName(i), "open", <<>>, <<>>)]]
SpecPuts == {OverfullBible}
SpecImports ==
    {[entities |-> <<Entry(Ent(EntName(1), tCharacter, <<>>, <<>>))>>,
      threads |-> <<RawThr(ThreadName(1), "", <<>>, <<>>)>>,
      style |-> <<>>]}

Init == InitWith(Buckets, {TRUE})

Next ==
    \/ getBible(1, "p1")
    \/ \E b \in SpecPuts : putBible(1, b)
    \/ \E e \in SpecEntities : upsertEntity(1, "p1", e)
    \/ \E es \in SpecBatches : upsertEntities(1, "p1", es)
    \/ \E t \in SpecThreads : upsertThread(1, "p1", t)
    \/ \E n \in ThreadNames : closeThread(1, "p1", n)
    \/ \E id \in SpecIds : removeEntity(1, "p1", id)
    \/ \E n \in ThreadNames : removeThread(1, "p1", n)
    \/ \E inc \in SpecImports : importBible(1, "p1", inc)
    \/ Storage

Spec == Init /\ [][Next]_vars

(***************************************************************************)
(* Claims checked under Spec                                               *)
(***************************************************************************)
StoredBibles == {store[p] : p \in DOMAIN store}
Resolved(c, op) == calls[c].pc = "resolved" /\ calls[c].op = op

\* C2: the schemaVersion of a project's stored aggregate never decreases from
\* one stored record to the next, also when it is above SCHEMA_VERSION.
C2_SchemaVersionNeverDecreases ==
    [][\A p \in (DOMAIN store) \cap (DOMAIN store') :
          (store[p].schemaVersion # <<>> /\ store'[p].schemaVersion # <<>>)
              => store'[p].schemaVersion[1] >= store[p].schemaVersion[1]]_vars

\* C3: every stored entity's id, and its key in the entities map, starts with
\* "<type>:" for that entity's own type.
C3_IdCarriesOwnType ==
    \A b \in StoredBibles : \A i \in 1..Len(b.entities) :
        LET e == b.entities[i]
        IN e.k = e.v.id /\ StartsWith(e.v.id, e.v.type \o <<":">>)

\* C4: the stored aggregate of every project holds at most MAX_ENTITIES
\* entities and at most MAX_THREADS threads.
C4_CapsHold ==
    \A b \in StoredBibles :
        Len(b.entities) <= MAX_ENTITIES /\ Len(b.threads) <= MAX_THREADS

\* C4 witness: putBible of an aggregate over both caps has completed and the
\* stored aggregate sits exactly at both caps.
C4_Witness ==
    /\ Resolved(1, "putBible")
    /\ Len(calls[1].arg.entities) > MAX_ENTITIES
    /\ Len(calls[1].arg.threads) > MAX_THREADS
    /\ "p1" \in DOMAIN store
    /\ Len(store["p1"].entities) = MAX_ENTITIES
    /\ Len(store["p1"].threads) = MAX_THREADS

(***************************************************************************)
(* SpecThread: the thread operations on one project, each awaited before   *)
(* the next is called, with names that differ only in surrounding          *)
(* whitespace, repeated todos, and hooks that are out of range, not        *)
(* finite, or numeric strings.                                             *)
(***************************************************************************)
nameA == <<"a">>
nameSpA == <<" ", "a">>
nameB == <<"b">>
todoX == <<"x">>
todoY == <<"y">>
todoZ == <<"z">>
\* [-1, 0.5, 2, NaN]
hooksMixed == <<<<"num", -10>>, <<"num", 5>>, <<"num", 20>>, <<"nan", 0>>>>
\* [Infinity, "0.5", 0, 1]
hooksEdge == <<<<"inf", 1>>, <<"str", 5>>, <<"num", 0>>, <<"num", 10>>>>

ThreadDeltas ==
    {Thr(nameA, "", Missing, <<>>, <<todoX>>),
     Thr(nameSpA, "closed", Missing, hooksMixed, <<>>),
     Thr(nameB, "", Missing, hooksEdge, <<todoX, todoY, todoZ>>),
     Thr(nameA, "", Missing, hooksEdge, <<todoY>>),
     Thr(<<" ">>, "", Missing, hooksMixed, <<todoX>>)}
ThreadPuts ==
    {[NewBible("p1", 0) EXCEPT
        !.threads = <<RawThr(nameA, "open", hooksMixed \o hooksEdge, <<todoX, todoX, todoY>>)>>]}
ThreadImports ==
    {[entities |-> <<>>,
      threads |-> <<RawThr(nameB, "", hooksMixed, <<todoZ, todoZ>>)>>,
      style |-> <<>>]}

InitThread == InitWith({EmptyBucket}, {TRUE})

ClosedNames == {nameA, nameB}
RemovedNames == {nameA, nameSpA}

NextThread ==
    \/ \E t \in ThreadDeltas : upsertThread(1, "p1", t)
    \/ \E n \in ClosedNames : closeThread(1, "p1", n)
    \/ \E n \in RemovedNames : removeThread(1, "p1", n)
    \/ \E b \in ThreadPuts : putBible(1, b)
    \/ \E inc \in ThreadImports : importBible(1, "p1", inc)
    \/ Storage

SpecThread == InitThread /\ [][NextThread]_vars

NoRepeat(s) == \A i, j \in 1..Len(s) : s[i] = s[j] => i = j

\* C1: no two threads of a project's stored aggregate have the same name.
C1_ThreadNamesUnique ==
    \A b \in StoredBibles : NoRepeat(MapSeq(b.threads, LAMBDA t : t.name))

\* C5: every stored thread has at most MAX_TODOS_PER_THREAD todos and no todo
\* occurs twice in it.
C5_TodosCappedAndUnique ==
    \A b \in StoredBibles : \A i \in 1..Len(b.threads) :
        Len(b.threads[i].todos) <= MAX_TODOS_PER_THREAD /\ NoRepeat(b.threads[i].todos)

\* C7: every hook of every stored thread is a finite number within [0, 1];
\* hooks that are not are dropped and the operation completes.
C7_HooksInUnitInterval ==
    \A b \in StoredBibles : \A i \in 1..Len(b.threads) :
        \A h \in Range(b.threads[i].hooks) : h[1] = "num" /\ h[2] >= 0 /\ h[2] <= 10

\* C7 witness: an upsertThread that carried -1, 2 and NaN beside 0.5 has
\* completed, and the thread it wrote holds 0.5 alone.
C7_Witness ==
    /\ Resolved(1, "upsertThread")
    /\ calls[1].arg.hooks = hooksMixed
    /\ "p1" \in DOMAIN store
    /\ \E i \in 1..Len(store["p1"].threads) :
          /\ store["p1"].threads[i].name = calls[1].arg.name
          /\ store["p1"].threads[i].hooks = <<<<"num", 5>>>>

(***************************************************************************)
(* SpecEntity: the entity operations on one project, each awaited before   *)
(* the next is called, with evidence that repeats, that differs only past  *)
(* the key's slice of the quote, and that runs past the cap.               *)
(***************************************************************************)
\* a quote of n characters, all c
Quote(c, n) == [i \in 1..n |-> c]
\* two quotes that agree on the key's slice and differ after it
evLong == Ev(Missing, <<>>, Quote("q", QuoteKeyLen) \o <<"1">>)
evLong2 == Ev(Missing, <<>>, Quote("q", QuoteKeyLen) \o <<"2">>)
evSpan == Ev(<<"c">>, <<1, 2>>, Missing)
evX == Ev(Undef, <<>>, <<"x">>)
\* MAX_EVIDENCE_PER_ENTITY + 1 entries with keys of their own
evMany == [i \in 1..(MAX_EVIDENCE_PER_ENTITY + 1) |-> Ev(<<Digits[i + 1]>>, <<>>, Missing)]

EvidenceLists == {<<>>, <<evLong>>, <<evLong2, evSpan>>, <<evX, evX>>, evMany}
EntityDeltas ==
    {Ent(idM, tCharacter, <<>>, ev) : ev \in EvidenceLists}
    \cup {Ent(idK, <<>>, <<[k |-> <<"k">>, v |-> AStr(<<"v">>)]>>, ev) : ev \in EvidenceLists}
EntityBatches == {<<e, Ent(idM, tCharacter, <<>>, <<evX>>)>> : e \in EntityDeltas}
EntityIds == {CharacterId(idM)}
AddedEvidence == {evLong, evLong2, evSpan}
EntityPuts ==
    {[NewBible("p1", 0) EXCEPT
        !.entities = <<Entry(Ent(CharacterId(idM), tCharacter, <<>>,
                                 <<evX, evLong, evLong2>> \o evMany))>>]}
EntityImports ==
    {[entities |-> <<Entry(Ent(CharacterId(idM), Undef, <<>>, <<evSpan, evSpan, evLong2>>))>>,
      threads |-> <<>>, style |-> <<>>]}

InitEntity == InitWith({EmptyBucket}, {TRUE})

NextEntity ==
    \/ \E e \in EntityDeltas : upsertEntity(1, "p1", e)
    \/ \E es \in EntityBatches : upsertEntities(1, "p1", es)
    \/ \E id \in EntityIds, ev \in AddedEvidence : addEvidence(1, "p1", id, ev)
    \/ \E id \in EntityIds : removeEntity(1, "p1", id)
    \/ \E b \in EntityPuts : putBible(1, b)
    \/ \E inc \in EntityImports : importBible(1, "p1", inc)
    \/ Storage

SpecEntity == InitEntity /\ [][NextEntity]_vars

\* the composite key of the data model: chapterId, span, the quote's first
\* QuoteKeyLen characters (a missing member counting as empty)
CompositeKey(ev) ==
    <<OrEmpty(ev.chapterId), ev.span, Take(OrEmpty(ev.quote), QuoteKeyLen)>>

InitIO == InitWith({EmptyBucket}, BOOLEAN)

PlainEntities == {Ent(n, tCharacter, <<>>, <<>>) : n \in EntNames}

NextIO ==
    \/ getBible(1, "p1")
    \/ \E e \in PlainEntities : upsertEntity(1, "p1", e)
    \/ \E id \in SpecIds : removeEntity(1, "p1", id)
    \/ clearBible(1, "p1")
    \/ StorageGet(1)
    \/ StorageSet(1)
    \/ StorageGetFails(1)
    \/ StorageSetFails(1)
    \/ Return(1)
    \/ Tick

SpecIO == InitIO /\ [][NextIO]_vars

\* C8: an operation during which a storage get or set failed does not
\* complete as if it had succeeded: the failure reaches its caller.
C8_FailureReachesCaller ==
    \A c \in Calls : calls[c].failed => calls[c].pc # "resolved"

(***************************************************************************)
(* SpecProjects: an operation on p1 and an operation on p2 in flight       *)
(* together, their storage calls completing in any order.                  *)
(***************************************************************************)
BothProjects ==
    BucketPut(BucketPut(EmptyBucket, "p1", NewBible("p1", 0)), "p2", NewBible("p2", 0))

InitProjects == InitWith({EmptyBucket, BothProjects}, {TRUE})

NextProjects ==
    \/ \E e \in PlainEntities : upsertEntity(1, "p1", e)
    \/ \E t \in SpecThreads : upsertThread(2, "p2", t)
    \/ Storage

SpecProjects == InitProjects /\ [][NextProjects]_vars

\* C9: once an upsertEntity on p1 and an upsertThread on p2 have both
\* completed, whatever the order of their storage calls, p1's stored aggregate
\* holds the entity and p2's stored aggregate holds the thread.
C9_ProjectsDoNotOverwrite ==
    (Resolved(1, "upsertEntity") /\ Resolved(2, "upsertThread"))
        => /\ "p1" \in DOMAIN store
           /\ canonicalId(calls[1].arg) \in EntKeys(store["p1"])
           /\ "p2" \in DOMAIN store
           /\ ThreadIdx(store["p2"], calls[2].arg.name) > 0

(***************************************************************************)
(* SpecRace: two upsertEntity calls on p1 in flight together, their        *)
(* storage calls completing in any order; the names run past the cap.      *)
(***************************************************************************)
InitRace == InitWith({EmptyBucket}, {TRUE})

NextRace ==
    \/ \E c \in Calls, e \in PlainEntities : upsertEntity(c, "p1", e)
    \/ Storage

SpecRace == InitRace /\ [][NextRace]_vars

BothSettled == \A c \in Calls : Resolved(c, "upsertEntity")
Kept(c) == "p1" \in DOMAIN store /\ canonicalId(calls[c].arg) \in EntKeys(store["p1"])

\* C10, original statement: when both calls have completed, the stored aggregate holds
\* the entity of the call whose save came last.
C10_LastSaverAlwaysKept ==
    \A c \in Calls : (BothSettled /\ lastWriter = c) => Kept(c)

\* C10, amended statement: when both calls have completed, the stored aggregate holds
\* the entity of the call whose save came last, unless the aggregate is at the
\* entity cap under other ids (the cap then evicts the new entity).
C10_LastSaverKeptBelowCap ==
    \A c \in Calls : (BothSettled /\ lastWriter = c)
        => Kept(c) \/ ("p1" \in DOMAIN store /\ Len(store["p1"].entities) = MAX_ENTITIES)

\* C10 witness: both calls have completed with different ids, the aggregate is
\* below the cap, it holds the last saver's entity and not the other call's.
C10_Witness ==
    \E c, d \in Calls :
        /\ BothSettled /\ lastWriter = c /\ d # c
        /\ canonicalId(calls[c].arg) # canonicalId(calls[d].arg)
        /\ Kept(c) /\ ~Kept(d)
        /\ Len(store["p1"].entities) < MAX_ENTITIES

(***************************************************************************)
(* SpecLifetime: operations on p1 and on p2 in flight together, clearBible  *)
(* and listProjectIds among them, their storage calls completing in any    *)
(* order.                                                                   *)
(***************************************************************************)
InitLifetime == InitWith({EmptyBucket, BothProjects}, {TRUE})

NextLifetime ==
    \/ getBible(1, "p1")
    \/ getBible(2, "p2")
    \/ \E e \in PlainEntities : upsertEntity(1, "p1", e)
    \/ clearBible(1, "p1")
    \/ clearBible(2, "p2")
    \/ \E c \in Calls : listProjectIds(c)
    \/ Storage

SpecLifetime == InitLifetime /\ [][NextLifetime]_vars

\* C11: a project that is in storage stays in storage from one stored bucket
\* to the next, unless a clearBible for that project is in flight.
C11_StoredUntilCleared ==
    [][\A p \in DOMAIN store :
          p \in DOMAIN store'
          \/ \E c \in Calls : calls[c].op = "clearBible" /\ calls[c].p = p]_vars

(***************************************************************************)
(* SpecRead: searchBible and getSnapshotForLLM on a project that is stored *)
(* and on one that is not, among upserts, each operation awaited before    *)
(* the next is called.                                                     *)
(***************************************************************************)
ReadProjects == {"p1", "p2"}
Queries == {Undef, <<>>, <<"e">>, <<" ", "T", "1">>}
SnapshotOpts ==
    {[maxEntities |-> <<>>, maxAttrsPerEntity |-> <<>>],
     [maxEntities |-> <<1>>, maxAttrsPerEntity |-> <<0>>]}
ReadOps == {"searchBible", "getSnapshotForLLM"}

InitRead == InitWith({EmptyBucket}, {TRUE})

NextRead ==
    \/ \E p \in ReadProjects, q \in Queries : searchBible(1, p, q)
    \/ \E p \in ReadProjects, o \in SnapshotOpts : getSnapshotForLLM(1, p, o)
    \/ \E e \in PlainEntities : upsertEntity(1, "p1", e)
    \/ \E t \in SpecThreads : upsertThread(1, "p1", t)
    \/ Storage

SpecRead == InitRead /\ [][NextRead]_vars

\* C12: no storage write of a searchBible or getSnapshotForLLM call changes
\* the stored bucket.
C12_ReadsLeaveBucketAlone ==
    [][\A c \in Calls : calls[c].op \in ReadOps => store' = store]_vars

(***************************************************************************)
(* SpecAttrs: upsertEntity and removeEntity on one project, each awaited    *)
(* before the next is called.  One entity is addressed by its bare name    *)
(* and by its prefixed id, with scalar, empty, null, numeric and           *)
(* multi-valued attribute values, one of them longer than the value cap,   *)
(* and with evidence past the evidence cap; two more entities take the     *)
(* project past the entity cap.                                            *)
(***************************************************************************)
keyK == <<"k">>
vX == AStr(<<"x">>)
vY == AStr(<<"y">>)
vEmpty == AStr(<<>>)
vNum == ANum(<<"5">>)
vXZ == AArr(<<<<"x">>, <<"z">>>>)
\* MaxAttrValues + 1 values
vMany == AArr([i \in 1..(MaxAttrValues + 1) |-> <<Digits[i + 1]>>])
AttrValues == {vX, vY, vEmpty, vNum, ANull, vXZ, vMany}
AttrLists == {<<>>} \cup {<<[k |-> keyK, v |-> v]>> : v \in AttrValues}
idN == <<"N">>
AttrDeltas ==
    {Ent(idM, tCharacter, a, ev) : a \in AttrLists, ev \in {<<>>, <<evX>>, evMany}}
    \cup {Ent(CharacterId(idM), tCharacter, a, <<evX>>) : a \in AttrLists}
    \cup {Ent(idK, Undef, <<>>, <<>>), Ent(idN, tLocation, <<>>, <<>>)}
AttrIds == {CharacterId(idM), tConcept \o <<":">> \o idK}

InitAttrs == InitWith({EmptyBucket}, {TRUE})

NextAttrs ==
    \/ \E e \in AttrDeltas : upsertEntity(1, "p1", e)
    \/ \E id \in AttrIds : removeEntity(1, "p1", id)
    \/ Storage

SpecAttrs == InitAttrs /\ [][NextAttrs]_vars

\* the record stored for project p once upsertEntity(p, e) has run, at time
\* now, on a bucket that holds the record b for p
upsertEntityStored(b, p, e, now) ==
    jsonBible(putStamp(Body([kind |-> "upsertEntity", e |-> e], migrate(b, p), now).b, now))

\* the attrs and evidence stored under id, <<>> when no entity is
AttrsEvidence(b, id) ==
    IF EntIdx(b, id) = 0 THEN <<>>
    ELSE <<[attrs |-> b.entities[EntIdx(b, id)].v.attrs,
            evidence |-> b.entities[EntIdx(b, id)].v.evidence]>>
\* the value stored for attribute k of the entity id, ANull when there is none
StoredAttr(b, id, k) ==
    IF EntIdx(b, id) = 0 THEN ANull ELSE AttrGet(b.entities[EntIdx(b, id)].v.attrs, k)

UpsertSaves(c) ==
    /\ calls[c].op = "upsertEntity" /\ calls[c].p = "p1"
    /\ calls[c].pc = "pbSet" /\ calls'[c].pc = "resolved"
    /\ "p1" \in DOMAIN store /\ "p1" \in DOMAIN store'
\* the entity's value of keyK before and after the save, and the delta's
OldValue(c) == StoredAttr(store["p1"], canonicalId(calls[c].arg), keyK)
NewValue(c) == StoredAttr(store'["p1"], canonicalId(calls[c].arg), keyK)
DeltaValue(c) == AttrGet(calls[c].arg.attrs, keyK)
NonEmptyScalar(v) == v.t \in {"str", "num"} /\ v.v[1] # <<>>
NonEmptyString(v) == v.t = "str" /\ v.v[1] # <<>>

\* C14, original statement: when the entity holds a non-empty scalar x for k
\* and the delta supplies a different non-empty scalar y, the stored value
\* becomes [x, y].
C14_ScalarConflictKept ==
    [][\A c \in Calls :
          (UpsertSaves(c) /\ NonEmptyScalar(OldValue(c)) /\ NonEmptyScalar(DeltaValue(c))
              /\ OldValue(c).v # DeltaValue(c).v)
          => NewValue(c) = AArr(<<OldValue(c).v[1], DeltaValue(c).v[1]>>)]_vars

\* C14, amended statement: when the entity holds a non-empty string x for k
\* and the delta supplies a different non-empty string y, the stored value
\* becomes [x, y].
C14_StringConflictKept ==
    [][\A c \in Calls :
          (UpsertSaves(c) /\ NonEmptyString(OldValue(c)) /\ NonEmptyString(DeltaValue(c))
              /\ OldValue(c).v # DeltaValue(c).v)
          => NewValue(c) = AArr(<<OldValue(c).v[1], DeltaValue(c).v[1]>>)]_vars

\* C14 witness: an upsertEntity that supplied the string x has completed on
\* an entity that held the string y, and the entity holds [y, x].
C14_Witness ==
    /\ Resolved(1, "upsertEntity")
    /\ calls[1].arg.attrs = <<[k |-> keyK, v |-> vX]>>
    /\ "p1" \in DOMAIN store
    /\ StoredAttr(store["p1"], canonicalId(calls[1].arg), keyK) = AArr(<<<<"y">>, <<"x">>>>)

\* C15: when the entity holds a non-empty value for k, scalar or
\* multi-valued, and the delta supplies the empty string, null or no value
\* for k, the stored value of k stays as it was.
C15_EmptyDeltaKeepsValue ==
    [][\A c \in Calls :
          (UpsertSaves(c)
              /\ (NonEmptyString(OldValue(c)) \/ (OldValue(c).t = "arr" /\ OldValue(c).v # <<>>))
              /\ (DeltaValue(c) = vEmpty \/ DeltaValue(c) = ANull))
          => NewValue(c) = OldValue(c)]_vars

\* names that carry no alphabetic prefix, and what a delta brings with them
BareNames == {idM, idK, <<" ", "M">>, <<"1", ":", "M">>}
BareDeltas == {[attrs |-> <<>>, evidence |-> <<>>],
               [attrs |-> <<[k |-> keyK, v |-> vY]>>, evidence |-> <<evX>>]}

\* C16: on every stored aggregate, upsertEntity with id N and type T and
\* upsertEntity with id "T:N" and type T store the same record: the entity is
\* keyed "T:N" (when the entity cap leaves it in) and never N.
C16_BareAndPrefixedIdAgree ==
    (calls[1].pc = "idle" /\ "p1" \in DOMAIN store)
        => \A T \in BibleEntityType, N \in BareNames, d \in BareDeltas :
              LET id == T \o <<":">> \o N
                  bare == upsertEntityStored(store["p1"], "p1", Ent(N, T, d.attrs, d.evidence), clock)
                  prefixed == upsertEntityStored(store["p1"], "p1", Ent(id, T, d.attrs, d.evidence), clock)
              IN /\ bare = prefixed
                 /\ EntIdx(bare, N) = 0
                 /\ EntIdx(bare, id) > 0 \/ Len(bare.entities) = MAX_ENTITIES

\* C16 witness: from an empty aggregate, upsertEntity with id M and then with
\* id Character:M have completed, and the aggregate holds one entity, keyed
\* Character:M, with both attribute values and the one evidence entry.
C16_Witness ==
    /\ Resolved(1, "upsertEntity")
    /\ calls[1].arg = Ent(CharacterId(idM), tCharacter, <<[k |-> keyK, v |-> vY]>>, <<evX>>)
    /\ "p1" \in DOMAIN store
    /\ Len(store["p1"].entities) = 1
    /\ store["p1"].entities[1].k = CharacterId(idM)
    /\ store["p1"].entities[1].v.attrs = <<[k |-> keyK, v |-> AArr(<<<<"x">>, <<"y">>>>)]>>
    /\ Len(store["p1"].entities[1].v.evidence) = 1

(***************************************************************************)
(* SpecCap: upserts and removals of plain entities and threads on one      *)
(* project, each awaited before the next is called, with one name more     *)
(* than each cap.                                                          *)
(***************************************************************************)
InitCap == InitWith({EmptyBucket}, {TRUE})

NextCap ==
    \/ \E e \in PlainEntities : upsertEntity(1, "p1", e)
    \/ \E id \in SpecIds : removeEntity(1, "p1", id)
    \/ \E t \in SpecThreads : upsertThread(1, "p1", t)
    \/ \E n \in ThreadNames : removeThread(1, "p1", n)
    \/ Storage

SpecCap == InitCap /\ [][NextCap]_vars

\* the entity ids and the thread names of an aggregate, in its own order
IdsOf(b) == [i \in 1..Len(b.entities) |-> b.entities[i].k]
NamesOf(b) == [i \in 1..Len(b.threads) |-> b.threads[i].name]
\* the step in which call c, an upsertThread on p1, saves and completes
ThreadSaves(c) ==
    /\ calls[c].op = "upsertThread" /\ calls[c].p = "p1"
    /\ calls[c].pc = "pbSet" /\ calls'[c].pc = "resolved"
    /\ "p1" \in DOMAIN store /\ "p1" \in DOMAIN store'

C18_ThreadsLastN ==
    [][\A c \in Calls : ThreadSaves(c) =>
          LET old == NamesOf(store["p1"])
              name == calls[c].arg.name
          IN NamesOf(store'["p1"])
                 = TakeLast(IF name \in Range(old) THEN old ELSE Append(old, name), MAX_THREADS)]_vars

\* C18 witness: the upsertThread of the last of MAX_THREADS + 1 names has
\* completed; MAX_THREADS threads remain, the new one last, the first name gone.
C18_Witness ==
    /\ Resolved(1, "upsertThread")
    /\ "p1" \in DOMAIN store
    /\ calls[1].arg.name = ThreadName(MAX_THREADS + 1)
    /\ NamesOf(store["p1"]) = [i \in 1..MAX_THREADS |-> ThreadName(i + 1)]

(***************************************************************************)
(* SpecRoundTrip: entity and thread upserts on one project, each awaited   *)
(* before the next is called, and exportBible whose result goes straight   *)
(* into importBible.                                                       *)
(***************************************************************************)
RoundTripEntities ==
    {Ent(idM, tCharacter, <<[k |-> keyK, v |-> vX]>>, <<evX>>),
     Ent(idM, tCharacter, <<[k |-> keyK, v |-> vY]>>, <<evSpan>>),
     Ent(idLocationM, tCharacter, <<[k |-> keyK, v |-> vXZ]>>, <<>>),
     Ent(idFooK, Undef, <<>>, <<evX>>)}

InitRoundTrip == InitWith({EmptyBucket}, {TRUE})

NextRoundTrip ==
    \/ \E e \in RoundTripEntities : upsertEntity(1, "p1", e)
    \/ \E t \in ThreadDeltas : upsertThread(1, "p1", t)
    \/ \E n \in ClosedNames : closeThread(1, "p1", n)
    \/ exportBible(1, "p1")
    \/ importExported(1)
    \/ Storage

SpecRoundTrip == InitRoundTrip /\ [][NextRoundTrip]_vars

\* the content of an aggregate, timestamps aside
ContentOf(b) ==
    [entities |-> b.entities,
     threads |-> MapSeq(b.threads, LAMBDA t :
                    [name |-> t.name, status |-> t.status, notes |-> t.notes,
                     hooks |-> t.hooks, todos |-> t.todos])]

\* C19: when importBible of what exportBible returned has completed, the
\* stored entities and threads are content-equal to the exported ones.
C19_RoundTripKeepsContent ==
    (Resolved(1, "importBible") /\ "p1" \in DOMAIN store)
        => ContentOf(store["p1"]) = ContentOf(calls[1].arg)

\* C20 (checked under SpecThread): when upsertThread matches an existing
\* thread, the name stored for that thread after the call is the name stored
\* before it.
C20_UpsertKeepsThreadName ==
    [][\A c \in Calls : ThreadSaves(c) =>
          LET i == ThreadIdx(store["p1"], Trim(OrEmpty(calls[c].arg.name)))
          IN i > 0 => store'["p1"].threads[i].name = store["p1"].threads[i].name]_vars

(***************************************************************************)
(* SpecBatch: upsertEntities on one project, each call awaited before the  *)
(* next is called, on a project that is stored and on one that is not.     *)
(* The batches are empty, repeat an id, run past the entity cap and past   *)
(* the evidence cap, and one repeats an evidence entry whose span holds    *)
(* NaN.                                                                     *)
(***************************************************************************)
evNaN == Ev(Missing, <<spanNaN, 1>>, Missing)
Batches ==
    {<<>>,
     <<Ent(idM, tCharacter, <<[k |-> keyK, v |-> vX]>>, <<evX>>),
       Ent(CharacterId(idM), tCharacter, <<[k |-> keyK, v |-> vY]>>, <<evSpan, evX>>)>>,
     [i \in 1..(MAX_ENTITIES + 1) |-> Ent(EntName(i), tCharacter, <<>>, <<>>)],
     <<Ent(EntName(MAX_ENTITIES + 1), tCharacter, <<>>, <<evX>>), Ent(idM, Undef, <<>>, evMany)>>,
     <<Ent(idM, tCharacter, <<>>, <<evLong>>), Ent(idM, tCharacter, <<>>, evMany)>>,
     <<Ent(idK, tRule, <<>>, <<evNaN>>), Ent(idK, tRule, <<>>, <<evNaN>>)>>}
BatchIds == {CharacterId(idM), CharacterId(EntName(1))}

InitBatch == InitWith({EmptyBucket, BucketPut(EmptyBucket, "p1", NewBible("p1", 0))}, {TRUE})

NextBatch ==
    \/ \E es \in Batches : upsertEntities(1, "p1", es)
    \/ \E id \in BatchIds : removeEntity(1, "p1", id)
    \/ Storage

SpecBatch == InitBatch /\ [][NextBatch]_vars

RECURSIVE upsertEachStored(_, _, _, _)
\* the record stored for p once upsertEntity(p, e) has run for each e of es
\* in turn, each call awaited before the next, on a bucket that holds b for p
upsertEachStored(b, p, es, now) ==
    IF es = <<>> THEN b
    ELSE upsertEachStored(upsertEntityStored(b, p, Head(es), now), p, Tail(es), now)

\* the step in which call c, an upsertEntities on p1, saves and completes
BatchSaves(c) ==
    /\ calls[c].op = "upsertEntities" /\ calls[c].p = "p1"
    /\ calls[c].pc = "pbSet" /\ calls'[c].pc = "resolved"
    /\ "p1" \in DOMAIN store /\ "p1" \in DOMAIN store'
\* no evidence entry of the batch holds a value JSON cannot carry
JsonCarries(es) ==
    \A i \in 1..Len(es) : \A j \in 1..Len(es[i].evidence) :
        spanNaN \notin Range(es[i].evidence[j].span)

C22_OneWritePerBatch ==
    \A c \in Calls : Resolved(c, "upsertEntities")
        => calls[c].sets = IF calls[c].arg = <<>> THEN 0 ELSE 1

(***************************************************************************)
(* SpecLoad: getBible on one project, called a second time while the       *)
(* caller still holds the first result, among putBible and upsertThread    *)
(* calls and with time passing.  The bucket starts empty, or with a record of an earlier  *)
(* release (no schemaVersion, entities, evidence, threads and todos past   *)
(* their caps, hooks out of range), or with a record of a later release.   *)
(***************************************************************************)
StaleBible ==
    [NewBible("p1", 0) EXCEPT
        !.schemaVersion = <<>>,
        !.entities = [i \in 1..(MAX_ENTITIES + 1) |->
                         Entry(Ent(CharacterId(EntName(i)), tCharacter, <<>>, <<evX, evX>> \o evMany))],
        !.threads = [i \in 1..(MAX_THREADS + 1) |->
                        RawThr(ThreadName(i), "open", hooksMixed,
                               [j \in 1..(MAX_TODOS_PER_THREAD + 1) |-> <<Digits[j + 1]>>])]]
LoadBuckets == {EmptyBucket, BucketPut(EmptyBucket, "p1", StaleBible),
                BucketPut(EmptyBucket, "p1", FutureBible)}

LoadPuts == ThreadPuts \cup EntityPuts

InitLoad == InitWith(LoadBuckets, {TRUE})

NextLoad ==
    \/ getBible(1, "p1")
    \/ (Resolved(1, "getBible") /\ getBible(2, "p1"))
    \/ \E b \in LoadPuts : putBible(1, b)
    \/ \E t \in SpecThreads : upsertThread(1, "p1", t)
    \/ \E c \in Calls : StorageGet(c)
    \/ \E c \in Calls : StorageSet(c)
    \/ (calls[2].pc = "idle" /\ Return(1))
    \/ Return(2)
    \/ Tick

SpecLoad == InitLoad /\ [][NextLoad]_vars

\* the six invariants of the data model, on one aggregate
IdCarriesOwnType(b) ==
    \A i \in 1..Len(b.entities) :
        b.entities[i].k = b.entities[i].v.id
        /\ StartsWith(b.entities[i].v.id, b.entities[i].v.type \o <<":">>)
CapsHold(b) == Len(b.entities) <= MAX_ENTITIES /\ Len(b.threads) <= MAX_THREADS
EvidenceCappedAndUnique(b) ==
    \A i \in 1..Len(b.entities) :
        Len(b.entities[i].v.evidence) <= MAX_EVIDENCE_PER_ENTITY
        /\ NoRepeat(MapSeq(b.entities[i].v.evidence, CompositeKey))
TodosCappedAndUnique(b) ==
    \A i \in 1..Len(b.threads) :
        Len(b.threads[i].todos) <= MAX_TODOS_PER_THREAD /\ NoRepeat(b.threads[i].todos)
HooksInUnitInterval(b) ==
    \A i \in 1..Len(b.threads) : \A h \in Range(b.threads[i].hooks) :
        h[1] = "num" /\ h[2] >= 0 /\ h[2] <= 10
ThreadNamesUnique(b) == NoRepeat(NamesOf(b))

\* C23: the aggregate a completed getBible returned satisfies the six
\* invariants of the data model, whatever wrote the stored record.
C23_LoadedSatisfiesInvariants ==
    \A c \in Calls : Resolved(c, "getBible") =>
        LET b == calls[c].ret[1]
        IN /\ IdCarriesOwnType(b) /\ CapsHold(b) /\ EvidenceCappedAndUnique(b)
           /\ TodosCappedAndUnique(b) /\ HooksInUnitInterval(b) /\ ThreadNamesUnique(b)

\* C24: a second getBible, completed while the caller still holds the result
\* of the first and with no write in between but getBible's own, returned an
\* aggregate equal to the first in every field.
C24_LoadTwiceEqual ==
    (Resolved(1, "getBible") /\ Resolved(2, "getBible")) => calls[2].ret = calls[1].ret

\* C24 witness: both calls have completed, later than the record was
\* written, on a record that lacks schemaVersion; both returned version 1
\* and the record cut to its caps.
C24_Witness ==
    /\ Resolved(1, "getBible") /\ Resolved(2, "getBible")
    /\ clock > 0
    /\ store["p1"].schemaVersion = <<>>
    /\ calls[2].ret[1].schemaVersion = <<1>>
    /\ Len(calls[2].ret[1].entities) = MAX_ENTITIES
    /\ Len(store["p1"].entities) > MAX_ENTITIES

\* C24 witness for the absent project: both calls have completed, the first
\* created the default aggregate, and time has passed since.
C24_WitnessDefault ==
    /\ Resolved(1, "getBible") /\ Resolved(2, "getBible")
    /\ calls[1].sets = 1 /\ calls[2].sets = 0
    /\ clock > calls[2].ret[1].updatedAt

\* a record a later release wrote
FromLaterRelease(b) == b.schemaVersion # <<>> /\ b.schemaVersion[1] > SCHEMA_VERSION

\* C25: every step of a getBible call on a stored record whose schemaVersion
\* is above SCHEMA_VERSION leaves the record stored with that schemaVersion
\* and raises no error, and the aggregate the call returns carries that
\* schemaVersion.
C25_FutureVersionKept ==
    [][\A c \in Calls :
          (calls[c].op = "getBible" /\ calls'[c] # calls[c]
              /\ calls[c].p \in DOMAIN store /\ FromLaterRelease(store[calls[c].p]))
          => /\ calls[c].p \in DOMAIN store'
             /\ store'[calls[c].p].schemaVersion = store[calls[c].p].schemaVersion
             /\ calls'[c].pc # "rejected"
             /\ calls'[c].pc = "resolved"
                   => calls'[c].ret[1].schemaVersion = store[calls[c].p].schemaVersion]_vars

\* C25 witness: getBible has completed on a record of a later release; it
\* returned the record's schemaVersion and the record is stored as it was.
C25_Witness ==
    /\ Resolved(1, "getBible")
    /\ calls[1].ret[1].schemaVersion = <<SCHEMA_VERSION + 1>>
    /\ store = BucketPut(EmptyBucket, "p1", FutureBible)

(***************************************************************************)
(* Claims on removeEntity and removeThread, checked under SpecCap          *)
(***************************************************************************)
RemoveOps == {"removeEntity", "removeThread"}
\* where the key of the remove call c sits in the aggregate b, 0 when nowhere
KeyIdx(b, c) == IF calls[c].op = "removeEntity" THEN EntIdx(b, calls[c].arg)
                ELSE ThreadIdx(b, calls[c].arg)
\* the sequence s without its i-th member, the others in their order
Without(s, i) == [j \in 1..(Len(s) - 1) |-> IF j < i THEN s[j] ELSE s[j + 1]]
\* the entities and threads of b without the entry the remove call c names
Removed(b, c) ==
    IF calls[c].op = "removeEntity"
    THEN [entities |-> Without(b.entities, KeyIdx(b, c)), threads |-> b.threads]
    ELSE [entities |-> b.entities, threads |-> Without(b.threads, KeyIdx(b, c))]
EntitiesThreads(b) == [entities |-> b.entities, threads |-> b.threads]

\* C26: a removeEntity or removeThread call raises no error.  On a stored
\* project whose aggregate does not hold the key it completes at its load,
\* having written nothing (entities, threads and updatedAt stay as stored);
\* on a project not stored it leaves an aggregate without entities and
\* threads.  When it saves, the aggregate held the key, and the stored
\* entities and threads afterwards are the earlier ones, in their order,
\* without that one entry.
C26_RemoveFrame ==
    [][\A c \in Calls :
          (calls[c].op \in RemoveOps /\ calls'[c] # calls[c] /\ calls[c].pc # "resolved")
          => LET p == calls[c].p
             IN /\ calls'[c].pc # "rejected"
                /\ (calls[c].pc = "gbGet" /\ p \in DOMAIN store /\ KeyIdx(store[p], c) = 0)
                      => calls'[c].pc = "resolved" /\ calls'[c].sets = 0 /\ store' = store
                /\ calls[c].pc = "gbSet"
                      => /\ calls'[c].pc = "resolved"
                         /\ EntitiesThreads(store'[p]) = [entities |-> <<>>, threads |-> <<>>]
                /\ calls[c].pc = "pbSet"
                      => /\ KeyIdx(store[p], c) > 0
                         /\ EntitiesThreads(store'[p]) = Removed(store[p], c)]_vars

\* C26 witness: removeThread of the first of the stored threads has
\* completed on a project at both caps; the other threads and every entity
\* are stored as they were.
C26_Witness ==
    /\ Resolved(1, "removeThread")
    /\ calls[1].sets = 1
    /\ calls[1].arg = ThreadName(1)
    /\ "p1" \in DOMAIN store
    /\ NamesOf(store["p1"]) = [i \in 1..(MAX_THREADS - 1) |-> ThreadName(i + 1)]
    /\ Len(store["p1"].entities) = MAX_ENTITIES

(***************************************************************************)
(* SpecBlank: upsertThread on one project, each call awaited before the    *)
(* next is called, with names that are missing, empty or only whitespace   *)
(* among names that are not, on a project that is stored and on one that   *)
(* is not.                                                                  *)
(***************************************************************************)
BlankNames == {Undef, <<>>, <<" ">>, <<" ", " ">>}
BlankThreads == {Thr(n, "closed", <<"n">>, hooksEdge, <<todoX>>) : n \in BlankNames}

InitBlank == InitWith({EmptyBucket, BucketPut(EmptyBucket, "p1", NewBible("p1", 0))}, {TRUE})

NextBlank ==
    \/ \E t \in BlankThreads : upsertThread(1, "p1", t)
    \/ \E t \in ThreadDeltas : upsertThread(1, "p1", t)
    \/ \E e \in PlainEntities : upsertEntity(1, "p1", e)
    \/ \E n \in RemovedNames : removeThread(1, "p1", n)
    \/ Storage

SpecBlank == InitBlank /\ [][NextBlank]_vars

\* C27: an upsertThread call whose name is missing, empty or only whitespace
\* raises no error and never saves: on a stored project it completes at its
\* load with the bucket as it was, and on a project not stored it leaves an
\* aggregate without threads and entities.
C27_BlankNameIsNoOp ==
    [][\A c \in Calls :
          (calls[c].op = "upsertThread" /\ calls[c].arg.name \in BlankNames
              /\ calls'[c] # calls[c] /\ calls[c].pc # "resolved")
          => LET p == calls[c].p
             IN /\ calls'[c].pc \notin {"rejected", "pbGet", "pbSet"}
                /\ calls[c].pc # "pbSet"
                /\ (calls[c].pc = "gbGet" /\ p \in DOMAIN store)
                      => calls'[c].pc = "resolved" /\ calls'[c].sets = 0 /\ store' = store
                /\ calls[c].pc = "gbSet"
                      => /\ calls'[c].pc = "resolved"
                         /\ EntitiesThreads(store'[p]) = [entities |-> <<>>, threads |-> <<>>]]_vars

\* C27 witness: an upsertThread with a whitespace-only name has completed on
\* a project that holds a thread and an entity, without a write.
C27_Witness ==
    /\ Resolved(1, "upsertThread")
    /\ calls[1].arg.name = <<" ">>
    /\ calls[1].sets = 0
    /\ "p1" \in DOMAIN store
    /\ Len(store["p1"].threads) = 1 /\ Len(store["p1"].entities) = 1

(***************************************************************************)
(* SpecSnapshot: getSnapshotForLLM on one project among upserts, each      *)
(* operation awaited before the next is called.  The entities carry two    *)
(* attribute keys and evidence, the threads more hooks than the snapshot   *)
(* shows; the bounds asked for are the defaults, zero, and more than the   *)
(* project can hold.                                                        *)
(***************************************************************************)
keyJ == <<"j">>
SnapshotEntities ==
    {Ent(n, tCharacter, <<[k |-> keyK, v |-> vX], [k |-> keyJ, v |-> vXZ]>>, ev) :
        n \in {idM, idK}, ev \in {<<>>, <<evX>>, <<evSpan>>}}
SnapshotThreads ==
    {Thr(nameA, "", Missing, hooksEdge, <<>>),
     Thr(nameB, "closed", <<"n">>, hooksEdge, <<todoX>>),
     Thr(nameA, "", Missing, hooksMixed, <<>>)}
BoundPairs ==
    {[maxEntities |-> <<>>, maxAttrsPerEntity |-> <<>>],
     [maxEntities |-> <<1>>, maxAttrsPerEntity |-> <<0>>],
     [maxEntities |-> <<0>>, maxAttrsPerEntity |-> <<1>>],
     [maxEntities |-> <<MAX_ENTITIES + 1>>, maxAttrsPerEntity |-> <<2>>]}

InitSnapshot == InitWith({EmptyBucket}, {TRUE})

NextSnapshot ==
    \/ \E o \in BoundPairs : getSnapshotForLLM(1, "p1", o)
    \/ \E e \in SnapshotEntities : upsertEntity(1, "p1", e)
    \/ \E t \in SnapshotThreads : upsertThread(1, "p1", t)
    \/ Storage

SpecSnapshot == InitSnapshot /\ [][NextSnapshot]_vars

\* the bounds a getSnapshotForLLM call asked for, the defaults when it named none
AskedEntities(c) ==
    IF calls[c].arg.maxEntities = <<>> THEN SnapEntities ELSE calls[c].arg.maxEntities[1]
AskedAttrs(c) ==
    IF calls[c].arg.maxAttrsPerEntity = <<>> THEN SnapAttrs
    ELSE calls[c].arg.maxAttrsPerEntity[1]

C28_WitnessAsked ==
    /\ Resolved(1, "getSnapshotForLLM")
    /\ calls[1].arg.maxEntities = <<1>>
    /\ "p1" \in DOMAIN store
    /\ Len(store["p1"].entities) = 2
    /\ Len(calls[1].ret[1].entities) = 1
    /\ calls[1].ret[1].entities[1].attrs = <<>>

(***************************************************************************)
(* SpecSearch: searchBible on one project among upserts, each operation    *)
(* awaited before the next is called.  The queries are missing, empty,     *)
(* only whitespace, in another letter case than the text they match,       *)
(* padded with a space, quoted as the serialised attrs are, running over   *)
(* the join of two members, and matching nothing.                          *)
(***************************************************************************)
SearchEntities ==
    {Ent(idM, tCharacter, <<[k |-> keyK, v |-> vX]>>, <<>>),
     Ent(idK, tRule, <<[k |-> keyK, v |-> vXZ]>>, <<evX>>)}
SearchThreads ==
    {Thr(nameA, "", <<"n">>, <<>>, <<todoX, todoY>>),
     Thr(nameB, "closed", Missing, <<>>, <<>>)}
SearchQueries ==
    {Undef, <<>>, <<" ">>, <<"M">>, <<"R","U","L","E">>, <<"\"","x","\"">>,
     <<"m"," ","c">>, <<" ","a">>, <<"x"," ","y">>, <<"N">>, <<"q">>}

InitSearch == InitWith({EmptyBucket}, {TRUE})

NextSearch ==
    \/ \E q \in SearchQueries : searchBible(1, "p1", q)
    \/ \E e \in SearchEntities : upsertEntity(1, "p1", e)
    \/ \E t \in SearchThreads : upsertThread(1, "p1", t)
    \/ Storage

SpecSearch == InitSearch /\ [][NextSearch]_vars

\* the stored entities of b, in its order
EntitiesOf(b) == [i \in 1..Len(b.entities) |-> b.entities[i].v]
\* the text q occurs in a member of the entity, of the thread
EntityMemberHas(e, q) ==
    \/ Includes(ToLower(e.id), q)
    \/ Includes(ToLower(e.type), q)
    \/ Includes(ToLower(JsonAttrs(e.attrs)), q)
ThreadMemberHas(t, q) ==
    \/ Includes(ToLower(t.name), q)
    \/ Includes(ToLower(OrEmpty(t.notes)), q)
    \/ Includes(ToLower(Join(t.todos, <<" ">>)), q)
\* the haystacks: the members joined by single spaces
EntityHaystack(e) == ToLower(e.id \o <<" ">> \o e.type \o <<" ">> \o JsonAttrs(e.attrs))
ThreadHaystack(t) ==
    ToLower(t.name \o <<" ">> \o OrEmpty(t.notes) \o <<" ">> \o Join(t.todos, <<" ">>))

\* C29, original statement: a completed searchBible returned every entity
\* and thread for an empty query, and otherwise exactly the entities whose
\* id, type or serialised attrs hold the query ignoring letter case and
\* exactly the threads whose name, notes or todos hold it, in stored order.
C29_SearchByMember ==
    \A c \in Calls : (Resolved(c, "searchBible") /\ calls[c].p \in DOMAIN store) =>
        LET b == store[calls[c].p]
            q == ToLower(OrEmpty(calls[c].arg))
        IN /\ calls[c].ret[1].entities
                 = SelectSeq(EntitiesOf(b), LAMBDA e : q = <<>> \/ EntityMemberHas(e, q))
           /\ calls[c].ret[1].threads
                 = SelectSeq(b.threads, LAMBDA t : q = <<>> \/ ThreadMemberHas(t, q))

\* C29, amended statement: a completed searchBible returned every entity and
\* thread when the query, stripped of surrounding whitespace, is empty, and
\* otherwise exactly the entities and threads whose haystack holds the
\* stripped query ignoring letter case, in stored order, with the style.
C29_SearchByHaystack ==
    \A c \in Calls : (Resolved(c, "searchBible") /\ calls[c].p \in DOMAIN store) =>
        LET b == store[calls[c].p]
            q == Trim(ToLower(OrEmpty(calls[c].arg)))
        IN /\ calls[c].ret[1].entities
                 = SelectSeq(EntitiesOf(b), LAMBDA e : q = <<>> \/ Includes(EntityHaystack(e), q))
           /\ calls[c].ret[1].threads
                 = SelectSeq(b.threads, LAMBDA t : q = <<>> \/ Includes(ThreadHaystack(t), q))
           /\ calls[c].ret[1].style = b.style

\* C29 witness: the query "M" has been answered on a project with two
\* entities and two threads; the one entity whose id ends in M came back,
\* and no thread.
C29_Witness ==
    /\ Resolved(1, "searchBible")
    /\ calls[1].arg = <<"M">>
    /\ "p1" \in DOMAIN store
    /\ Len(store["p1"].entities) = 2 /\ Len(store["p1"].threads) = 2
    /\ Len(calls[1].ret[1].entities) = 1
    /\ calls[1].ret[1].entities[1].id = CharacterId(idM)
    /\ calls[1].ret[1].threads = <<>>

(***************************************************************************)
(* Claims on the evidence merge, checked under SpecEntity                  *)
(***************************************************************************)
RECURSIVE EarliestByKey(_)
\* the entries of list whose composite key no earlier entry has, in order
EarliestByKey(list) ==
    IF list = <<>> THEN <<>>
    ELSE LET r == EarliestByKey(SubSeq(list, 1, Len(list) - 1))
             x == list[Len(list)]
         IN IF \E i \in 1..Len(r) : CompositeKey(r[i]) = CompositeKey(x) THEN r
            ELSE Append(r, x)
\* the evidence stored under id, none when no entity is
EvidenceOf(b, id) == IF EntIdx(b, id) = 0 THEN <<>> ELSE b.entities[EntIdx(b, id)].v.evidence
\* an evidence list as storage holds it: members that are undefined are not there
AsStored(list) ==
    [i \in 1..Len(list) |->
        [list[i] EXCEPT !.chapterId = IF @ = Undef THEN Missing ELSE @,
                        !.quote = IF @ = Undef THEN Missing ELSE @]]

\* C30: when an upsertEntity saves and its entity is stored, the entity's
\* evidence is the first MAX_EVIDENCE_PER_ENTITY entries of the existing
\* evidence followed by the delta's, later entries with a composite key
\* already seen left out; an entity that held MAX_EVIDENCE_PER_ENTITY entries
\* keeps exactly that list.
C30_EvidenceEarliestKept ==
    [][\A c \in Calls :
          (UpsertSaves(c) /\ EntIdx(store'["p1"], canonicalId(calls[c].arg)) > 0)
          => LET id == canonicalId(calls[c].arg)
                 old == EvidenceOf(store["p1"], id)
                 new == EvidenceOf(store'["p1"], id)
             IN /\ new = Take(EarliestByKey(old \o AsStored(calls[c].arg.evidence)),
                              MAX_EVIDENCE_PER_ENTITY)
                /\ Len(old) = MAX_EVIDENCE_PER_ENTITY => new = old]_vars

\* C30 witness: an upsertEntity has completed whose delta carried more
\* entries than the cap, all with keys the entity did not hold; the entity,
\* which held one entry, holds that entry first and is at the cap, and the
\* delta's last entry is not stored.
C30_Witness ==
    /\ Resolved(1, "upsertEntity")
    /\ calls[1].arg.evidence = evMany
    /\ "p1" \in DOMAIN store
    /\ LET ev == EvidenceOf(store["p1"], canonicalId(calls[1].arg))
       IN /\ Len(ev) = MAX_EVIDENCE_PER_ENTITY
          /\ ev[1] = AsStored(<<evX>>)[1]
          /\ evMany[Len(evMany)] \notin Range(ev)

(***************************************************************************)
(* Claims on the multi-valued attribute merge, checked under SpecAttrs     *)
(***************************************************************************)
\* the strings a value contributes to a union: an array's elements, a
\* scalar's text, nothing for null
StringsOf(v) == IF v.t = "null" THEN <<>> ELSE v.v

\* C31: when an upsertEntity saves, its entity is stored, the delta has the
\* key k and the existing or the delta value of k is multi-valued, the stored
\* value is the first MaxAttrValues of the existing values followed by the
\* delta's with later duplicates left out; and every multi-valued value the
\* save leaves under k has at most MaxAttrValues values, none repeated.
C31_MultiValuedMerge ==
    [][\A c \in Calls :
          (UpsertSaves(c) /\ EntIdx(store'["p1"], canonicalId(calls[c].arg)) > 0)
          => /\ (AttrIdx(calls[c].arg.attrs, keyK) > 0
                    /\ (OldValue(c).t = "arr" \/ DeltaValue(c).t = "arr"))
                => NewValue(c) = AArr(Take(Uniq(StringsOf(OldValue(c)) \o StringsOf(DeltaValue(c))),
                                           MaxAttrValues))
             /\ NewValue(c).t = "arr"
                => Len(NewValue(c).v) <= MaxAttrValues /\ NoRepeat(NewValue(c).v)]_vars

\* C31 witness: an upsertEntity whose delta carried more values than the cap
\* has completed on an entity that held [x, z]; the entity holds x, z and the
\* delta's first value, and no more.
C31_Witness ==
    /\ Resolved(1, "upsertEntity")
    /\ calls[1].arg.attrs = <<[k |-> keyK, v |-> vMany]>>
    /\ "p1" \in DOMAIN store
    /\ StoredAttr(store["p1"], canonicalId(calls[1].arg), keyK)
         = AArr(<<<<"x">>, <<"z">>, vMany.v[1]>>)

(***************************************************************************)
(* SpecMerge: upsertThread, closeThread and importBible on the threads of  *)
(* one project, each awaited before the next is called, while time passes. *)
(* The deltas carry a status or none, notes, no notes member or a notes    *)
(* member that is undefined, and hooks that are numbers, numeric strings,  *)
(* out of range or not finite.                                             *)
(***************************************************************************)
notesN == <<"n">>
\* [0.5]
hooksHalf == <<<<"num", 5>>>>
\* ["0.5", 0]
hooksText == <<<<"str", 5>>, <<"num", 0>>>>
MergeDeltas ==
    {Thr(nameA, "open", notesN, hooksHalf, <<>>),
     Thr(nameA, "", Missing, hooksMixed, <<>>),
     Thr(nameA, "closed", Missing, <<>>, <<>>),
     Thr(nameA, "", Undef, hooksText, <<>>),
     Thr(nameB, "", Missing, hooksEdge, <<>>)}
\* incoming.threads of one record: without status and notes, and with both
MergeImports ==
    {[entities |-> <<>>, threads |-> <<RawThr(nameA, "", <<>>, <<>>)>>, style |-> <<>>],
     [entities |-> <<>>,
      threads |-> <<[RawThr(nameA, "closed", hooksHalf, <<>>) EXCEPT !.notes = notesN]>>,
      style |-> <<>>]}
MergeClosed == {nameA}

InitMerge == InitWith({EmptyBucket}, {TRUE})

NextMerge ==
    \/ \E t \in MergeDeltas : upsertThread(1, "p1", t)
    \/ \E n \in MergeClosed : closeThread(1, "p1", n)
    \/ \E inc \in MergeImports : importBible(1, "p1", inc)
    \/ Storage
    \/ Tick

SpecMerge == InitMerge /\ [][NextMerge]_vars

\* the step in which call c saves the aggregate into which an upsertThread,
\* called directly or by importBible, has merged its thread
MergeSaves(c, op) ==
    /\ calls[c].op = op /\ calls[c].p = "p1"
    /\ calls[c].pc = "pbSet" /\ calls'[c].sets = calls[c].sets + 1
    /\ calls[c].work # <<>> /\ Head(calls[c].work).kind = "upsertThread"
    /\ "p1" \in DOMAIN store /\ "p1" \in DOMAIN store'
\* the thread record the caller gave: upsertThread's argument, or the member
\* of incoming.threads that importBible is merging
GivenThread(c) ==
    IF calls[c].op = "importBible"
    THEN calls[c].arg.threads[Len(calls[c].arg.threads) - Len(calls[c].work) + 2]
    ELSE calls[c].arg
\* where the thread of that name was stored before the save, 0 when nowhere,
\* and the thread the save wrote
OldIdx(c) == ThreadIdx(store["p1"], Trim(OrEmpty(GivenThread(c).name)))
OldThread(c) == store["p1"].threads[OldIdx(c)]
NewThread(c) ==
    IF OldIdx(c) > 0 THEN store'["p1"].threads[OldIdx(c)]
    ELSE store'["p1"].threads[Len(store'["p1"].threads)]

\* C32: when upsertThread(p, t) saves, the stored status is t's when t
\* carries one, the existing thread's when t carries none, and open when t
\* carries none and the thread is new.
C32_ThreadStatusRule ==
    [][\A c \in Calls : MergeSaves(c, "upsertThread") =>
          LET t == GivenThread(c)
          IN /\ t.status # "" => NewThread(c).status = t.status
             /\ (t.status = "" /\ OldIdx(c) > 0) => NewThread(c).status = OldThread(c).status
             /\ (t.status = "" /\ OldIdx(c) = 0) => NewThread(c).status = "open"]_vars

\* C32 witness: an upsertThread that carried no status has completed on a
\* thread that was closed, and the thread is closed.
C32_Witness ==
    /\ Resolved(1, "upsertThread")
    /\ calls[1].arg = Thr(nameA, "", Missing, hooksMixed, <<>>)
    /\ "p1" \in DOMAIN store
    /\ ThreadIdx(store["p1"], nameA) > 0
    /\ store["p1"].threads[ThreadIdx(store["p1"], nameA)].status = "closed"
    /\ store["p1"].threads[ThreadIdx(store["p1"], nameA)].hooks = hooksHalf

\* the number a hook value stands for when it is finite and within [0, 1]
ValidHooks(hs) == {ToNumber(hs[i]) : i \in {j \in 1..Len(hs) :
                       IsFiniteNum(ToNumber(hs[j])) /\ InUnit(ToNumber(hs[j]))}}

\* C33: when upsertThread saves, the thread's hooks are the valid values of
\* the existing and the delta hooks, each once, and nothing else.
C33_HooksExactUnion ==
    [][\A c \in Calls : MergeSaves(c, "upsertThread") =>
          LET old == IF OldIdx(c) > 0 THEN OldThread(c).hooks ELSE <<>>
          IN /\ Range(NewThread(c).hooks) = ValidHooks(old \o GivenThread(c).hooks)
             /\ NoRepeat(NewThread(c).hooks)]_vars

\* C33 for hooks that are all numbers (supporting check; it holds): the same
\* statement when no delta hook is a numeric string.
C33_NumberHooksExactUnion ==
    [][\A c \in Calls :
          (MergeSaves(c, "upsertThread")
              /\ \A h \in Range(GivenThread(c).hooks) : h[1] # "str")
          => LET old == IF OldIdx(c) > 0 THEN OldThread(c).hooks ELSE <<>>
             IN /\ Range(NewThread(c).hooks) = ValidHooks(old \o GivenThread(c).hooks)
                /\ NoRepeat(NewThread(c).hooks)]_vars

\* C35: when importBible merges a thread record that carries no status into
\* an existing thread, the thread's status stays as it was.
C35_ImportKeepsStatus ==
    [][\A c \in Calls :
          (MergeSaves(c, "importBible") /\ GivenThread(c).status = "" /\ OldIdx(c) > 0)
          => NewThread(c).status = OldThread(c).status]_vars

\* C36: when upsertThread or importBible merges a thread record without
\* notes into an existing thread that has notes, the thread's notes and
\* createdAt stay as they were.
C36_NotesKeptWithoutNotes ==
    [][\A c \in Calls :
          ((MergeSaves(c, "upsertThread") \/ MergeSaves(c, "importBible"))
              /\ Absent(GivenThread(c).notes) /\ OldIdx(c) > 0
              /\ ~Absent(OldThread(c).notes))
          => /\ NewThread(c).notes = OldThread(c).notes
             /\ NewThread(c).createdAt = OldThread(c).createdAt]_vars

\* C36 for upsertThread deltas that have no notes member at all (supporting
\* check; it holds): notes and createdAt stay as they were.
C36_UpsertWithoutNotesMember ==
    [][\A c \in Calls :
          (MergeSaves(c, "upsertThread") /\ GivenThread(c).notes = Missing
              /\ OldIdx(c) > 0 /\ ~Absent(OldThread(c).notes))
          => /\ NewThread(c).notes = OldThread(c).notes
             /\ NewThread(c).createdAt = OldThread(c).createdAt]_vars

(***************************************************************************)
(* Claims on the snapshot's selection, checked under SpecSnapshot          *)
(***************************************************************************)
\* the place entity i of ents takes when ents is ordered by evidence count,
\* most first, entities of equal count in the order they have in ents
PlaceOf(ents, i) ==
    Cardinality({j \in 1..Len(ents) : Len(ents[j].evidence) > Len(ents[i].evidence)})
    + Cardinality({j \in 1..i : Len(ents[j].evidence) = Len(ents[i].evidence)})
ByEvidence(ents) ==
    [p \in 1..Len(ents) |-> ents[CHOOSE i \in 1..Len(ents) : PlaceOf(ents, i) = p]]

\* C34: the entities of the snapshot a completed getSnapshotForLLM returned
\* are the first maxEntities of the aggregate's entities ordered by evidence
\* count, most first and equal counts in the aggregate's order; no entity
\* left out has more evidence than one shown; and the threads are the last
\* SnapThreads of the aggregate, in order.
C34_SnapshotSelection ==
    \A c \in Calls : (Resolved(c, "getSnapshotForLLM") /\ "p1" \in DOMAIN store) =>
        LET r == calls[c].ret[1]
            ents == EntitiesOf(store["p1"])
            top == Take(ByEvidence(ents), AskedEntities(c))
            shown == {r.entities[i].id : i \in 1..Len(r.entities)}
            last == TakeLast(store["p1"].threads, SnapThreads)
        IN /\ Len(r.entities) = Len(top)
           /\ \A i \in 1..Len(top) :
                 r.entities[i].id = top[i].id /\ r.entities[i].type = top[i].type
           /\ \A i, j \in 1..Len(ents) :
                 (ents[i].id \in shown /\ ents[j].id \notin shown)
                    => Len(ents[j].evidence) <= Len(ents[i].evidence)
           /\ Len(r.threads) = Len(last)
           /\ \A i \in 1..Len(last) :
                 /\ r.threads[i].name = last[i].name
                 /\ r.threads[i].status = last[i].status
                 /\ r.threads[i].notes = last[i].notes

\* C34 witness: a snapshot of one entity has been returned on a project whose
\* second entity has more evidence than its first; it shows the second, and
\* the last thread of the two stored.
C34_Witness ==
    /\ Resolved(1, "getSnapshotForLLM")
    /\ calls[1].arg.maxEntities = <<1>>
    /\ "p1" \in DOMAIN store
    /\ Len(store["p1"].entities) = 2 /\ Len(store["p1"].threads) = 2
    /\ Len(store["p1"].entities[2].v.evidence) > Len(store["p1"].entities[1].v.evidence)
    /\ Len(calls[1].ret[1].entities) = 1
    /\ calls[1].ret[1].entities[1].id = store["p1"].entities[2].k
    /\ Len(calls[1].ret[1].threads) = 1
    /\ calls[1].ret[1].threads[1].name = store["p1"].threads[2].name

\* C34 witness for equal counts: a snapshot of one entity has been returned
\* on a project whose two entities have one evidence entry each; it shows
\* the first.
C34_WitnessTie ==
    /\ Resolved(1, "getSnapshotForLLM")
    /\ calls[1].arg.maxEntities = <<1>>
    /\ "p1" \in DOMAIN store
    /\ Len(store["p1"].entities) = 2
    /\ Len(store["p1"].entities[1].v.evidence) = 1
    /\ Len(store["p1"].entities[2].v.evidence) = 1
    /\ calls[1].ret[1].entities[1].id = store["p1"].entities[1].k

(***************************************************************************)
(* SpecLoss: operations on one project of a bucket that holds two, each    *)
(* awaited before the next is called, under either storage shim, with      *)
(* storage reads that may fail (writes do not fail here, so a call marked  *)
(* failed is one whose read failed).                                       *)
(***************************************************************************)
LossBucket ==
    BucketPut(BucketPut(EmptyBucket, "p1",
        [NewBible("p1", 0) EXCEPT
            !.entities = <<Entry(Ent(CharacterId(EntName(1)), tCharacter, <<>>, <<>>))>>,
            !.threads = <<RawThr(ThreadName(1), "open", <<>>, <<>>)>>]),
        "p2", NewBible("p2", 0))

InitLoss == InitWith({LossBucket}, BOOLEAN)

NextLoss ==
    \/ getBible(1, "p1")
    \/ \E e \in PlainEntities : upsertEntity(1, "p1", e)
    \/ \E t \in SpecThreads : upsertThread(1, "p1", t)
    \/ StorageGet(1)
    \/ StorageSet(1)
    \/ StorageGetFails(1)
    \/ Return(1)

SpecLoss == InitLoss /\ [][NextLoss]_vars

\* C37: a call whose read of the bucket failed writes no bucket that lacks a
\* project, an entity or a thread that was stored before the write.
C37_FailedReadLosesNothing ==
    [][\A c \in Calls :
          (calls[c].failed /\ AtSet(calls[c]) /\ calls'[c].sets = calls[c].sets + 1)
          => \A p \in DOMAIN store :
                /\ p \in DOMAIN store'
                /\ EntKeys(store[p]) \subseteq EntKeys(store'[p])
                /\ Range(NamesOf(store[p])) \subseteq Range(NamesOf(store'[p]))]_vars

\* C37 under the localStorage shim (supporting check; it holds): there a
\* failed read rejects the call, which writes nothing afterwards.
C37_RejectedReadWritesNothing ==
    [][\A c \in Calls : (calls[c].failed /\ ~hasChrome) => store' = store]_vars

(***************************************************************************)
(* SpecRouter: runtime messages of every type, with and without their      *)
(* fileId and text, two in flight together, every awaited call settling    *)
(* with any result the browser can deliver.                                *)
(***************************************************************************)
MessageTypes == {"", PING, CONNECT_REQUEST, EXPORT_REQUEST, INSERT_TEXT_REQUEST,
                 TOGGLE_REQUEST, TOGGLE_PANEL}
Messages ==
    {[type |-> t, fileId |-> "f", text |-> ""] : t \in MessageTypes \ {INSERT_TEXT_REQUEST}}
    \cup {[type |-> INSERT_TEXT_REQUEST, fileId |-> f, text |-> x] :
             f \in {"", "f"}, x \in {"", "x"}}

InitRouter == InitWith({EmptyBucket}, {TRUE})

NextRouter ==
    \/ \E i \in Ports, msg \in Messages : onMessage(i, msg)
    \/ \E i \in Ports : Settles(i)
    \/ \E i \in Ports : Release(i)

SpecRouter == InitRouter /\ [][NextRouter]_vars

HandledTypes == {PING, CONNECT_REQUEST, EXPORT_REQUEST, INSERT_TEXT_REQUEST, TOGGLE_REQUEST}
\* the last call the handler awaited rejected, or the handler threw on its input
LastRejected(port) ==
    port.log # <<>> /\ ~Fulfils(port.log[Len(port.log)].call, port.log[Len(port.log)].result)
ThrewOnInput(port) ==
    port.msg.type = INSERT_TEXT_REQUEST /\ (port.msg.fileId = "" \/ port.msg.text = "")

\* C38: a message of a handled type is answered exactly once: never twice;
\* until it is answered the listener has returned true and the handler is
\* awaiting a call, and once the handler has finished there is one response,
\* { ok: false, error } when the last awaited call rejected or the handler
\* threw on its input, and { ok: true } otherwise.
C38_AnsweredExactlyOnce ==
    \A i \in Ports : ports[i].msg.type \in HandledTypes =>
        LET port == ports[i]
        IN /\ port.open
           /\ Len(port.sent) <= 1
           /\ port.pc # "done" => port.sent = <<>> /\ Results(AwaitedCall(port.pc)) # {}
           /\ port.pc = "done" =>
                 /\ Len(port.sent) = 1
                 /\ (LastRejected(port) \/ ThrewOnInput(port))
                       => ~port.sent[1].ok /\ port.sent[1].error # ""
                 /\ ~(LastRejected(port) \/ ThrewOnInput(port))
                       => port.sent[1].ok /\ port.sent[1].error = ""

\* C38 witness: an INSERT_TEXT_REQUEST whose silent auth failed, whose
\* interactive auth gave a token and whose append was refused has been
\* answered once, with { ok: false, error }, while a CONNECT_REQUEST on the
\* other port has been answered { ok: true }.
C38_Witness ==
    /\ ports[1].msg.type = INSERT_TEXT_REQUEST /\ ports[1].pc = "done"
    /\ Len(ports[1].log) = 3
    /\ ports[1].log[3] = [call |-> "docsAppendText", result |-> "error"]
    /\ ports[1].sent = <<RespError("docsAppendText")>>
    /\ ports[2].msg.type = CONNECT_REQUEST /\ ports[2].pc = "done"
    /\ ports[2].sent = <<RespOk>>

\* the calls of a log, and the calls of the fallback after the first token
CallsOf(log) == [k \in 1..Len(log) |-> log[k].call]
Fallback == <<"driveExportText", "docsGetFlatten", "removeToken", "getAuthToken(true)",
              "driveExportText", "docsGetFlatten">>
IsPrefix(s, t) == Len(s) <= Len(t) /\ s = SubSeq(t, 1, Len(s))
Fetches == {"driveExportText", "docsGetFlatten"}
OriginOf(call) == IF call = "driveExportText" THEN "drive_export" ELSE "docs_api"
CountOf(log, call) == Cardinality({k \in 1..Len(log) : log[k].call = call})

\* C39: the calls of an EXPORT_REQUEST, once it has a token, are a prefix of
\* drive export, docs api, removeToken, getAuthToken(true), drive export,
\* docs api: at most two attempts of each fetch and one token removal.  A
\* fetch that succeeds is the last call, and the answer is then { ok: true }
\* with the origin of that fetch; the answer is { ok: false } only when a
\* getAuthToken(true) was rejected or four fetches have failed.
C39_ExportFallback ==
    \A i \in Ports : ports[i].msg.type = EXPORT_REQUEST =>
        LET port == ports[i]
            log == port.log
            n == Len(log)
            first == IF n >= 2 /\ log[2].call = "getAuthToken(true)" /\ log[1].result # "value"
                     THEN 2 ELSE 1
        IN /\ n >= 1 => log[1].call = "getAuthToken(false)"
           /\ IsPrefix(SubSeq(CallsOf(log), first + 1, n), Fallback)
           /\ CountOf(log, "driveExportText") <= 2
           /\ CountOf(log, "docsGetFlatten") <= 2
           /\ CountOf(log, "removeToken") <= 1
           /\ \A k \in 1..n : (log[k].call \in Fetches /\ log[k].result = "value")
                 => k = n /\ port.pc = "done"
                      /\ port.sent = <<RespText(OriginOf(log[k].call))>>
           /\ \A k \in 1..Len(port.sent) :
                 IF port.sent[k].ok
                 THEN n >= 1 /\ log[n].call \in Fetches /\ log[n].result = "value"
                 ELSE \/ log[n].call = "getAuthToken(true)" /\ log[n].result # "value"
                      \/ Cardinality({j \in 1..n : log[j].call \in Fetches
                                                      /\ log[j].result = "error"}) = 4

\* C39 witness: an EXPORT_REQUEST has been answered from the drive export
\* after both fetches failed, the token was removed and a new one obtained.
C39_Witness ==
    /\ ports[1].msg.type = EXPORT_REQUEST /\ ports[1].pc = "done"
    /\ CallsOf(ports[1].log) = <<"getAuthToken(false)">> \o SubSeq(Fallback, 1, 5)
    /\ ports[1].sent = <<RespText("drive_export")>>

\* C39 witness for the failure: an EXPORT_REQUEST has been answered
\* { ok: false } after all four fetches failed.
C39_WitnessAllFailed ==
    /\ ports[1].msg.type = EXPORT_REQUEST /\ ports[1].pc = "done"
    /\ CallsOf(ports[1].log) = <<"getAuthToken(false)">> \o Fallback
    /\ ports[1].sent = <<RespError("docsGetFlatten")>>

=============================================================================
